---- MODULE Spec2Model ----
(***************************************************************************)
(* State-machine model of larscom/go-cache.                                *)
(*                                                                         *)
(* The repository holds several generations of the cache; those modelled  *)
(* here have each their own specifications over one set of variables:     *)
(*   SpecLoading   LoadingCache (cache.Load / cache.Reload, loaderMutex)   *)
(*   SpecImpl      CacheImpl, the (Value, error) API of cache.go           *)
(*   SpecCacheSeq, SpecCacheConc                                           *)
(*                 Cache, the (Value, bool, error) API of cache.go with    *)
(*                 WithMaxSize, driven by one or by two goroutines         *)
(*   SpecSweep     CacheImpl with WithExpireAfterWrite: clock, ticker,     *)
(*                 cleanup, onExpired, Close                               *)
(*   SpecCacheTTL  Cache with WithExpireAfterWrite, its ticker and cleanup *)
(* Goroutines are the elements of Procs; every handler is cut at the       *)
(* points where it touches shared state (registry, mutex, map, key list).  *)
(***************************************************************************)
EXTENDS Integers, Sequences, FiniteSets, TLC

\* ---------------------------------------------------------------- bounds
NumProcs == 3
MaxKey == 3
NumValues == 2
NumErrs == 2
MaxCap == 3
LoadCalls == 3
ImplCalls == 3
SeqOps == 4
ConcOps == 2
MaxTime == 3
MaxTTL == 1
SweepOps == 3
TtlOps == 2
NoLoaderCalls == 3
TimerOps == 3
LiveCalls == 2
RefreshCalls == 2
ForEachOps == 3
CleanerCalls == 4

Procs == 1..NumProcs
Keys == 0..MaxKey
\* keys requested from the loading caches (a sub-range keeps the
\* interleavings of three goroutines explorable)
LoadKeys == 1..2
Values == 1..NumValues
Errs == 1..NumErrs
MutexIds == 1..NumProcs

\* the zero value of the int key and value type; absence from a map
Zero == 0
None == -1
NoProc == 0
NoMutex == 0
Nil == 0

VARIABLES
    pc,         \* pc[p]: position of goroutine p inside its current call
    op,         \* op[p]: the operation goroutine p is executing
    key,        \* key[p]: key argument of the current call
    arg,        \* arg[p]: value p passes to Put (None: nothing to put)
    res,        \* res[p]: what the call returned: [val, ok, err]
    mref,       \* mref[p]: the *sync.Mutex p got from LoadOrStore
    reg,        \* keyed-mutex registry (sync.Map): key -> mutex or NoMutex
    holder,     \* holder[m]: goroutine holding mutex m, or NoProc
    data,       \* the cache map: key -> value or None
    keys,       \* Cache.keys, the insertion-order key slice
    maxSize,    \* Cache.maxSize (0: WithMaxSize not used)
    withLoader, \* Cache.withLoader
    impl,       \* TRUE: the cache is a CacheImpl, FALSE: any other type
    rw,         \* writer holding Cache.mu inside Put's eviction section
    active,     \* goroutines that issue calls in this run
    budget,     \* calls that may still be started
    calls,      \* history: calls[k] = loader invocations for k
    failed,     \* history: some loader invocation for k returned an error
    touched,    \* history: k was the target of Put / Reload / Remove
    contended,  \* history: a caller found k's mutex already registered
    pre,        \* history: pre[p] = data[key[p]] when p's call started
    puts,       \* history: keys of the Puts so far, while only Puts ran
    onlyPuts,   \* history: every call so far was a Put
    now,        \* the clock read by time.Now()
    expireAfterWrite, \* the configured TTL (0: entries never expire)
    withOnExpired,    \* an onExpired callback is configured
    expireAt,   \* expireAt[k]: expiration of k's entry (0: the zero time)
    updated,    \* updated[k]: value of time.Now() when k's entry was made
    spc,        \* position of the ticker goroutine ("none": no ticker)
    skeys,      \* keys the running cleanup still has to visit
    sent,       \* the entry the running cleanup got from getSafe
    final,      \* the running cleanup was started by the done channel
    ctxDone,    \* the ticker's context is cancelled
    once,       \* ticker.once has run
    closes,     \* number of close(t.done) executed (2: panic)
    fired,      \* onExpired invocations of the current cleanup: <<k, v>>
    startExpired, \* history: <<k, v>> stored and expired when cleanup began
    userTouched, \* history: keys written or removed by callers meanwhile
    lastPut,    \* history: lastPut[k] = value of the latest Put(k, v) whose
                \* entry was not removed since (None: there is none)
    seen,       \* history: keys whose entry the running cleanup examined
                \* (kept for a cache without TTL)
    timers,     \* the expire goroutines started so far, one per entry
    eid,        \* eid[k]: index in timers of k's entry (0: no entry)
    readers,    \* readers[p]: read locks of Cache.mu held by goroutine p
    wwait,      \* goroutines that called mu.Lock() and wait for the readers
    loaded,     \* history: loaded[k] = result of the latest successful
                \* loader invocation for k (None: there is none)
    dropped     \* history: indices in timers of the entries that Remove or
                \* Clear deleted

vars == <<pc, op, key, arg, res, mref, reg, holder, data, keys, maxSize,
          withLoader, impl, rw, active, budget, calls, failed, touched, contended,
          pre, puts, onlyPuts, now, expireAfterWrite, withOnExpired,
          expireAt, updated, spc, skeys, sent, final, ctxDone, once, closes,
          fired, startExpired, userTouched, lastPut, seen, timers, eid,
          readers, wwait, loaded, dropped>>

procVars == <<pc, op, key, arg, res, mref>>
lockVars == <<reg, holder>>
cfgVars == <<maxSize, withLoader, impl, active>>
histVars == <<calls, failed, touched, contended, pre, puts, onlyPuts>>
clockVars == <<now, expireAfterWrite, withOnExpired>>
entVars == <<expireAt, updated>>
sweepVars == <<spc, skeys, sent, final>>
tickVars == <<ctxDone, once, closes>>
logVars == <<fired, startExpired, userTouched>>
ttlVars == <<clockVars, entVars, sweepVars, tickVars, logVars>>
rwVars == <<readers, wwait>>
extVars == <<rwVars, loaded, dropped>>
obsVars == <<lastPut, seen, timers, eid, extVars>>

NoRes == [val |-> Zero, ok |-> FALSE, err |-> Nil]

\* error of Reload, Refresh or a loading Get without a loader function
NoLoaderErr == NumErrs + 1

\* time.Time{}: the zero time; the clock starts after it
zeroTime == 0

\* no entry: what getSafe returns with found = false
NoEntry == [key |-> Zero, val |-> None, exp |-> zeroTime]

\* isExpired of an entry with expiration e, time.Now() being t:
\* if e.IsZero() { return false }; return time.Now().After(e)
isExpired_NotBefore(e, t) == IF e = zeroTime THEN FALSE ELSE t >= e

isExpired(e, t) == IF e = zeroTime THEN FALSE ELSE t > e

\* isValid: return !e.isExpired()
isValid(e, t) == ~isExpired(e, t)

\* expiration given by CacheImpl.newEntry at time t with TTL d
newExpiration(t, d) == IF d > 0 THEN t + d ELSE zeroTime

\* a cleanup is between its key snapshot and its end
Sweeping == spc \in {"get", "remove"}

\* what a loader may return: a value, or an error with the zero value
LoaderOutcomes ==
    {[val |-> v, err |-> Nil] : v \in Values} \cup
    {[val |-> Zero, err |-> e] : e \in Errs}

Min(S) == CHOOSE x \in S : \A y \in S : x <= y

Count == Cardinality({k \in Keys : data[k] # None})

\* ------------------------------------------------------------ keyed lock

\* goroutine p is between a successful lock(key) and the call of release
InCrit(p) == pc[p] \in {"crit", "loader", "pcheck", "evictA", "evictB",
                        "psafe", "unlock"}

\* a mutex no goroutine and no registry entry refers to: &sync.Mutex{}
FreshMutex ==
    Min(MutexIds \ ({reg[k] : k \in Keys} \cup {mref[p] : p \in Procs}))

\* value, _ := m.LoadOrStore(key, &sync.Mutex{})  registered for `key`
LockLoadOrStore_Global(p) ==
    /\ pc[p] = "los"
    /\ LET g == Min(Keys) IN
       IF reg[g] = NoMutex
       THEN /\ reg' = [reg EXCEPT ![g] = FreshMutex]
            /\ mref' = [mref EXCEPT ![p] = FreshMutex]
            /\ contended' = contended
       ELSE /\ mref' = [mref EXCEPT ![p] = reg[g]]
            /\ reg' = reg
            /\ contended' = [contended EXCEPT ![key[p]] = TRUE]
    /\ pc' = [pc EXCEPT ![p] = "mulock"]
    /\ UNCHANGED <<op, key, arg, res, holder, data, keys, rw,
                   cfgVars, obsVars, ttlVars, budget, calls, failed, touched, pre, puts,
                   onlyPuts>>

LockLoadOrStore(p) ==
    /\ pc[p] = "los"
    /\ IF reg[key[p]] = NoMutex
       THEN /\ reg' = [reg EXCEPT ![key[p]] = FreshMutex]
            /\ mref' = [mref EXCEPT ![p] = FreshMutex]
            /\ contended' = contended
       ELSE /\ mref' = [mref EXCEPT ![p] = reg[key[p]]]
            /\ reg' = reg
            /\ contended' = [contended EXCEPT ![key[p]] = TRUE]
    /\ pc' = [pc EXCEPT ![p] = "mulock"]
    /\ UNCHANGED <<op, key, arg, res, holder, data, keys, rw,
                   cfgVars, obsVars, ttlVars, budget, calls, failed, touched, pre, puts,
                   onlyPuts>>

\* where a caller continues once it owns the lock: Reload and Refresh call
\* the loader at once, Load and Get look into the map first
AfterLock(p) == IF op[p] \in {"Reload", "Refresh"} THEN "loader" ELSE "crit"

\* mu.Lock(): blocks while the mutex is held
LockMu_RemoveFirst(p) ==
    /\ pc[p] = "mulock"
    /\ holder[mref[p]] = NoProc
    /\ holder' = [holder EXCEPT ![mref[p]] = p]
    /\ pc' = [pc EXCEPT ![p] = AfterLock(p)]
    /\ data' = IF op[p] = "Reload" THEN [data EXCEPT ![key[p]] = None]
               ELSE data
    /\ UNCHANGED <<op, key, arg, res, mref, reg, keys, rw,
                   cfgVars, obsVars, ttlVars, budget, histVars>>

LockMu(p) ==
    /\ pc[p] = "mulock"
    /\ holder[mref[p]] = NoProc
    /\ holder' = [holder EXCEPT ![mref[p]] = p]
    /\ pc' = [pc EXCEPT ![p] = AfterLock(p)]
    /\ UNCHANGED <<op, key, arg, res, mref, reg, data, keys, rw,
                   cfgVars, obsVars, ttlVars, budget, histVars>>

\* release, first half: mu.Unlock()
ReleaseUnlock_KeepHeld(p) ==
    /\ pc[p] = "unlock"
    /\ holder' = holder
    /\ pc' = [pc EXCEPT ![p] = "delete"]
    /\ UNCHANGED <<op, key, arg, res, mref, reg, data, keys, rw,
                   cfgVars, obsVars, ttlVars, budget, histVars>>

ReleaseUnlock(p) ==
    /\ pc[p] = "unlock"
    /\ holder' = [holder EXCEPT ![mref[p]] = NoProc]
    /\ pc' = [pc EXCEPT ![p] = "delete"]
    /\ UNCHANGED <<op, key, arg, res, mref, reg, data, keys, rw,
                   cfgVars, obsVars, ttlVars, budget, histVars>>

\* where a caller continues after release: CacheImpl.Get and Refresh store
\* the loaded value after unlock(), every other caller returns
AfterRelease(p) ==
    IF op[p] \in {"ImplGet", "Refresh"} /\ arg[p] # None
    THEN "iput" ELSE "done"

\* release, second half: m.Delete(key) removes whatever mutex is registered
ReleaseDelete_Keep(p) ==
    /\ pc[p] = "delete"
    /\ reg' = reg
    /\ mref' = [mref EXCEPT ![p] = NoMutex]
    /\ pc' = [pc EXCEPT ![p] = AfterRelease(p)]
    /\ UNCHANGED <<op, key, arg, res, holder, data, keys, rw,
                   cfgVars, obsVars, ttlVars, budget, histVars>>

ReleaseDelete(p) ==
    /\ pc[p] = "delete"
    /\ reg' = [reg EXCEPT ![key[p]] = NoMutex]
    /\ mref' = [mref EXCEPT ![p] = NoMutex]
    /\ pc' = [pc EXCEPT ![p] = AfterRelease(p)]
    /\ UNCHANGED <<op, key, arg, res, holder, data, keys, rw,
                   cfgVars, obsVars, ttlVars, budget, histVars>>

\* ---------------------------------------------------------- LoadingCache

\* cache.get: the value of a stored entry
get(d, k) == IF d[k] # None THEN [val |-> d[k], found |-> TRUE]
             ELSE [val |-> Zero, found |-> FALSE]

\* a goroutine enters Load(k), Reload(k) or Put(k, v)
LoadingStart(p) ==
    /\ p \in active
    /\ pc[p] = "idle"
    /\ budget > 0
    /\ \E o \in {"Load", "Reload", "LPut"}, k \in LoadKeys, v \in Values :
         /\ o # "LPut" => v = Min(Values)
         /\ op' = [op EXCEPT ![p] = o]
         /\ key' = [key EXCEPT ![p] = k]
         /\ arg' = [arg EXCEPT ![p] = IF o = "LPut" THEN v ELSE None]
         /\ pc' = [pc EXCEPT ![p] = IF o = "LPut" THEN "lput" ELSE "los"]
         /\ touched' = [touched EXCEPT ![k] = @ \/ o # "Load"]
    /\ budget' = budget - 1
    /\ UNCHANGED <<res, mref, lockVars, data, keys, rw, cfgVars, obsVars, ttlVars,
                   calls, failed, contended, pre, puts, onlyPuts>>

\* cached, found := c.get(key); if found { return cached, nil }
LoadGet_NoRecheck(p) ==
    /\ pc[p] = "crit"
    /\ op[p] = "Load"
    /\ pc' = [pc EXCEPT ![p] = "loader"]
    /\ UNCHANGED <<op, key, arg, res, mref, lockVars, data, keys,
                   rw, cfgVars, obsVars, ttlVars, budget, histVars>>

LoadGet(p) ==
    /\ pc[p] = "crit"
    /\ op[p] = "Load"
    /\ LET g == get(data, key[p]) IN
       IF g.found
       THEN /\ res' = [res EXCEPT ![p] = [val |-> g.val, ok |-> TRUE, err |-> Nil]]
            /\ pc' = [pc EXCEPT ![p] = "unlock"]
       ELSE /\ res' = res
            /\ pc' = [pc EXCEPT ![p] = "loader"]
    /\ UNCHANGED <<op, key, arg, mref, lockVars, data, keys, rw,
                   cfgVars, obsVars, ttlVars, budget, histVars>>

\* q, inside Load of p's key, has fetched the key's mutex and waits for it
Waiting(q, p) ==
    q # p /\ op[q] = "Load" /\ key[q] = key[p] /\ pc[q] = "mulock"

\* value, err := c.loaderFunc(key)
\* if err == nil { c.data.Store(key, c.newEntry(key, value)) }
\* return value, err      (the deferred unlock runs next)
\* The loader is external: it returns any of LoaderOutcomes. History: the
\* error of a failed Load is noted in pre for the callers waiting behind it.
LoadCall_StoreAlways(p) ==
    /\ pc[p] = "loader"
    /\ op[p] \in {"Load", "Reload"}
    /\ \E o \in LoaderOutcomes :
         /\ failed' = [failed EXCEPT ![key[p]] = @ \/ o.err # Nil]
         /\ data' = [data EXCEPT ![key[p]] = o.val]
         /\ res' = [res EXCEPT ![p] = [val |-> o.val, ok |-> FALSE, err |-> o.err]]
         /\ pre' = [q \in Procs |->
                      IF o.err # Nil /\ op[p] = "Load" /\ Waiting(q, p)
                      THEN o.err ELSE pre[q]]
    /\ calls' = [calls EXCEPT ![key[p]] = @ + 1]
    /\ pc' = [pc EXCEPT ![p] = "unlock"]
    /\ UNCHANGED <<op, key, arg, mref, lockVars, keys, rw, cfgVars, obsVars, ttlVars,
                   budget, touched, contended, puts, onlyPuts>>

LoadCall_RemoveFirst(p) ==
    /\ pc[p] = "loader"
    /\ op[p] \in {"Load", "Reload"}
    /\ \E o \in LoaderOutcomes :
         /\ failed' = [failed EXCEPT ![key[p]] = @ \/ o.err # Nil]
         /\ data' = [data EXCEPT ![key[p]] = IF o.err = Nil THEN o.val ELSE None]
         /\ res' = [res EXCEPT ![p] = [val |-> o.val, ok |-> FALSE, err |-> o.err]]
         /\ pre' = [q \in Procs |->
                      IF o.err # Nil /\ op[p] = "Load" /\ Waiting(q, p)
                      THEN o.err ELSE pre[q]]
    /\ calls' = [calls EXCEPT ![key[p]] = @ + 1]
    /\ pc' = [pc EXCEPT ![p] = "unlock"]
    /\ UNCHANGED <<op, key, arg, mref, lockVars, keys, rw, cfgVars, obsVars, ttlVars,
                   budget, touched, contended, puts, onlyPuts>>

LoadCall(p) ==
    /\ pc[p] = "loader"
    /\ op[p] \in {"Load", "Reload"}
    /\ \E o \in LoaderOutcomes :
         /\ failed' = [failed EXCEPT ![key[p]] = @ \/ o.err # Nil]
         /\ data' = IF o.err = Nil THEN [data EXCEPT ![key[p]] = o.val] ELSE data
         /\ res' = [res EXCEPT ![p] = [val |-> o.val, ok |-> FALSE, err |-> o.err]]
         /\ pre' = [q \in Procs |->
                      IF o.err # Nil /\ op[p] = "Load" /\ Waiting(q, p)
                      THEN o.err ELSE pre[q]]
    /\ calls' = [calls EXCEPT ![key[p]] = @ + 1]
    /\ pc' = [pc EXCEPT ![p] = "unlock"]
    /\ UNCHANGED <<op, key, arg, mref, lockVars, keys, rw, cfgVars, obsVars, ttlVars,
                   budget, touched, contended, puts, onlyPuts>>

\* Put of the loading cache: stores a new entry for the key
LoadingPut(p) ==
    /\ pc[p] = "lput"
    /\ data' = [data EXCEPT ![key[p]] = arg[p]]
    /\ pc' = [pc EXCEPT ![p] = "done"]
    /\ UNCHANGED <<op, key, arg, res, mref, lockVars, keys, rw,
                   cfgVars, obsVars, ttlVars, budget, histVars>>

\* ------------------------------------------------------------------ Init

InitCommon ==
    /\ pc = [p \in Procs |-> "idle"]
    /\ op = [p \in Procs |-> "none"]
    /\ key = [p \in Procs |-> Zero]
    /\ arg = [p \in Procs |-> None]
    /\ res = [p \in Procs |-> NoRes]
    /\ mref = [p \in Procs |-> NoMutex]
    /\ reg = [k \in Keys |-> NoMutex]
    /\ holder = [m \in MutexIds |-> NoProc]
    /\ data = [k \in Keys |-> None]
    /\ rw = NoProc
    /\ calls = [k \in Keys |-> 0]
    /\ failed = [k \in Keys |-> FALSE]
    /\ touched = [k \in Keys |-> FALSE]
    /\ contended = [k \in Keys |-> FALSE]
    /\ pre = [p \in Procs |-> None]
    /\ puts = <<>>
    /\ onlyPuts = TRUE
    /\ now = 1
    /\ expireAt = [k \in Keys |-> zeroTime]
    /\ updated = [k \in Keys |-> zeroTime]
    /\ skeys = {}
    /\ sent = NoEntry
    /\ final = FALSE
    /\ ctxDone = FALSE
    /\ once = FALSE
    /\ closes = 0
    /\ fired = <<>>
    /\ startExpired = {}
    /\ userTouched = {}
    /\ lastPut = [k \in Keys |-> None]
    /\ seen = {}
    /\ timers = <<>>
    /\ eid = [k \in Keys |-> 0]
    /\ readers = [p \in Procs |-> 0]
    /\ wwait = {}
    /\ loaded = [k \in Keys |-> None]
    /\ dropped = {}

\* no WithExpireAfterWrite, no WithOnExpired; the ticker is left out
NoExpiration ==
    /\ expireAfterWrite = 0
    /\ withOnExpired = FALSE
    /\ spc = "none"

\* NewLoadingCache(loaderFunc): empty map, no size bound
InitLoading ==
    /\ InitCommon
    /\ NoExpiration
    /\ keys = <<>>
    /\ maxSize = 0
    /\ withLoader = TRUE
    /\ impl = FALSE
    /\ active = Procs
    /\ budget = LoadCalls

NextLoading ==
    \/ \E p \in Procs : LoadingStart(p)
    \/ \E p \in Procs : LockLoadOrStore(p)
    \/ \E p \in Procs : LockMu(p)
    \/ \E p \in Procs : LoadGet(p)
    \/ \E p \in Procs : LoadCall(p)
    \/ \E p \in Procs : LoadingPut(p)
    \/ \E p \in Procs : ReleaseUnlock(p)
    \/ \E p \in Procs : ReleaseDelete(p)

SpecLoading == InitLoading /\ [][NextLoading]_vars

\* ------------------------------------------------- LoadingCache: claims

Quiescent == \A p \in Procs : pc[p] \in {"idle", "done"}

\* no Put, no Reload and no failed loader call has involved k
OnlyGoodLoads(k) == ~touched[k] /\ ~failed[k]

\* the step in which p's loader call returns and Load/Reload stores
LoaderReturns(p, o) == op[p] = o /\ pc[p] = "loader" /\ pc'[p] = "unlock"

\* C1: concurrent Load(k) calls on an uncached key k, with a loader that
\* succeeds and no other operation on k, invoke the loader exactly once;
\* every call returns the loaded value and k has its one entry.
SingleFlightLoad ==
    \A k \in LoadKeys :
        OnlyGoodLoads(k) =>
            /\ calls[k] <= 1
            /\ \A p \in Procs :
                 (op[p] = "Load" /\ key[p] = k /\ pc[p] = "done") =>
                     /\ calls[k] = 1
                     /\ res[p].err = Nil
                     /\ data[k] # None
                     /\ res[p].val = data[k]

\* C1 witness: two Load calls on one key met at the key's mutex and both
\* returned after a single loader invocation.
SingleFlightLoadWitness ==
    \E k \in LoadKeys : \E p, q \in Procs :
        /\ p # q
        /\ OnlyGoodLoads(k) /\ contended[k] /\ calls[k] = 1
        /\ op[p] = "Load" /\ key[p] = k /\ pc[p] = "done"
        /\ op[q] = "Load" /\ key[q] = k /\ pc[q] = "done"
        /\ res[p].val = data[k] /\ res[q].val = data[k]

\* C3: at most one caller at a time is between a successful lock(k) and
\* the call of its release function for the same key k.
KeyedMutualExclusion ==
    \A p, q \in Procs :
        (p # q /\ InCrit(p) /\ InCrit(q)) => key[p] # key[q]

\* C4: a caller waiting for a mutex waits only behind a holder of its own
\* key, and once concurrent Loads on distinct uncached keys have all
\* returned the loader has run once per requested key, one entry each.
IndependentKeys ==
    /\ \A p \in Procs :
         (pc[p] = "mulock" /\ holder[mref[p]] # NoProc) =>
             key[holder[mref[p]]] = key[p]
    /\ (Quiescent /\ \A k \in LoadKeys : OnlyGoodLoads(k)) =>
         LET requested == {key[p] : p \in {q \in Procs : op[q] = "Load"}} IN
         /\ \A k \in LoadKeys : calls[k] = IF k \in requested THEN 1 ELSE 0
         /\ {k \in Keys : data[k] # None} = requested

\* C4 witness: Loads on two keys, two callers meeting on one of them, all
\* returned: two loader invocations and two entries.
IndependentKeysWitness ==
    /\ Quiescent
    /\ \A k \in LoadKeys : OnlyGoodLoads(k) /\ calls[k] = 1
    /\ \E k \in LoadKeys : contended[k]
    /\ Count = Cardinality(LoadKeys)

\* C31: a Load caller that was waiting for the key's mutex while the
\* loader of another Load of that key failed does not invoke the loader
\* itself, and returns that error.
FailedLoadCoalesced ==
    [][\A q \in Procs :
         /\ LoaderReturns(q, "Load") => pre[q] = None
         /\ (op[q] = "Load" /\ pc[q] # "done" /\ pc'[q] = "done"
               /\ pre[q] # None) => res'[q].err = pre[q]]_vars

\* p is inside lock(key) or the release function it returned: from the
\* LoadOrStore to the Delete
UsesLock(p) == pc[p] = "mulock" \/ InCrit(p) \/ pc[p] = "delete"

\* C34: the registry has an entry for k only while some caller is between
\* its LoadOrStore and its Delete for k (waiting for the mutex, holding it,
\* or inside the release function); once all calls have returned the
\* registry is empty.
RegistryLifetime ==
    \A k \in Keys :
        (\A p \in Procs : ~(UsesLock(p) /\ key[p] = k)) => reg[k] = NoMutex

\* C34 witness: calls on two different keys, callers having met at a
\* mutex, have all returned and the registry is empty.
RegistryWitness ==
    /\ Quiescent
    /\ \A k \in Keys : reg[k] = NoMutex
    /\ \E k \in LoadKeys : contended[k]
    /\ \E p, q \in Procs :
         /\ key[p] # key[q]
         /\ op[p] \in {"Load", "Reload"} /\ pc[p] = "done"
         /\ op[q] \in {"Load", "Reload"} /\ pc[q] = "done"

\* NewLoadingCache(loaderFunc) with LiveCalls calls made by its users
InitLoadingLive ==
    /\ InitCommon
    /\ NoExpiration
    /\ keys = <<>>
    /\ maxSize = 0
    /\ withLoader = TRUE
    /\ impl = FALSE
    /\ active = Procs
    /\ budget = LiveCalls

\* a step of goroutine p inside a call it has started
LoadingStep(p) ==
    \/ LockLoadOrStore(p)
    \/ LockMu(p)
    \/ LoadGet(p)
    \/ LoadCall(p)
    \/ LoadingPut(p)
    \/ ReleaseUnlock(p)
    \/ ReleaseDelete(p)

\* every goroutine inside a call keeps being scheduled and every loader
\* invocation returns; whether a call is started at all is left open
SpecLoadingLive ==
    /\ InitLoadingLive
    /\ [][NextLoading]_vars
    /\ \A p \in Procs : WF_vars(LoadingStep(p))

\* C36: every Load and Reload call that was started returns: a goroutine
\* makes one call, so from some point on each goroutine is idle for good
\* or has returned.
LoadingTerminates == <>[]Quiescent

\* C36 witness: two goroutines have called Load or Reload on one key, one
\* has waited for the mutex the other held, and both calls have returned.
LoadingTerminatesWitness ==
    \E k \in LoadKeys : \E p, q \in Procs :
        /\ p # q /\ contended[k] /\ budget = 0
        /\ op[p] \in {"Load", "Reload"} /\ key[p] = k /\ pc[p] = "done"
        /\ op[q] \in {"Load", "Reload"} /\ key[q] = k /\ pc[q] = "done"

\* C37: while a Reload of k is under way and k has an entry, every step
\* leaves k with an entry, so a lookup of k never misses; the value a
\* lookup finds stays the same until a loader result or a Put is stored
\* for k, and is that stored value from then on.
ReloadAtomic ==
    [][\A p \in Procs :
         (/\ op[p] = "Reload" /\ pc[p] \notin {"idle", "done"}
          /\ get(data, key[p]).found) =>
            LET k == key[p] IN
            /\ get(data', k).found
            /\ \/ get(data', k).val = get(data, k).val
               \/ \E q \in Procs :
                    /\ key[q] = k /\ pc[q] = "loader" /\ pc'[q] = "unlock"
                    /\ res'[q].err = Nil
                    /\ get(data', k).val = res'[q].val
               \/ \E q \in Procs :
                    /\ key[q] = k /\ pc[q] = "lput" /\ pc'[q] = "done"
                    /\ get(data', k).val = arg[q]]_vars

\* C37 witness: the loader of a Reload of a cached key is running, and a
\* Load of the same key has returned the cached value.
ReloadAtomicWitness ==
    \E p, q \in Procs :
        /\ op[p] = "Reload" /\ pc[p] = "loader"
        /\ data[key[p]] # None
        /\ op[q] = "Load" /\ key[q] = key[p] /\ pc[q] = "done"
        /\ res[q].ok /\ res[q].val = data[key[p]]

\* C5: when the loader fails, Load returns the loader's error and the
\* cache map is exactly what it was before the loader returned.
LoadFailureKeepsCache ==
    [][\A p \in Procs :
         (LoaderReturns(p, "Load") /\ res'[p].err # Nil) =>
             /\ data' = data
             /\ Count' = Count
             /\ failed'[key[p]]
             /\ res'[p].val = Zero]_vars

\* C5 witness: a Load returned an error, its key has no entry and the
\* entry of another key is in place.
LoadFailureWitness ==
    \E p \in Procs :
        /\ op[p] = "Load" /\ pc[p] = "done" /\ res[p].err # Nil
        /\ data[key[p]] = None
        /\ \E k \in LoadKeys : k # key[p] /\ data[k] # None

\* C6: Reload reaches its return only through a loader invocation; on
\* success the entry of k becomes the loaded value (Count grows only if k
\* was absent), on error the map is unchanged and a Get of k still finds
\* the value stored before.
ReloadSemantics ==
    [][\A p \in Procs :
         /\ (op[p] = "Reload" /\ pc[p] # "unlock" /\ pc'[p] = "unlock") =>
                calls'[key[p]] = calls[key[p]] + 1
         /\ (LoaderReturns(p, "Reload") /\ res'[p].err = Nil) =>
                /\ data' = [data EXCEPT ![key[p]] = res'[p].val]
                /\ Count' = Count + (IF data[key[p]] = None THEN 1 ELSE 0)
         /\ (LoaderReturns(p, "Reload") /\ res'[p].err # Nil) =>
                /\ data' = data
                /\ get(data', key[p]) = get(data, key[p])]_vars

\* C6 witness: a Reload of a cached key failed and the key is still cached,
\* while another Reload replaced a cached value by the loaded one.
ReloadWitness ==
    \E p, q \in Procs :
        /\ op[p] = "Reload" /\ pc[p] = "done" /\ res[p].err # Nil
        /\ data[key[p]] # None
        /\ op[q] = "Reload" /\ pc[q] = "done" /\ res[q].err = Nil
        /\ key[q] # key[p]
        /\ data[key[q]] = res[q].val

\* ------------------------------------------------------------- CacheImpl

\* CacheImpl.getSafe: entry, found := c.entries[key]
getSafe(d, k) == [val |-> IF d[k] # None THEN d[k] ELSE Zero,
                  found |-> d[k] # None]

\* a goroutine enters CacheImpl.Get(k)
ImplStart(p) ==
    /\ p \in active
    /\ pc[p] = "idle"
    /\ budget > 0
    /\ \E k \in LoadKeys : key' = [key EXCEPT ![p] = k]
    /\ op' = [op EXCEPT ![p] = "ImplGet"]
    /\ pc' = [pc EXCEPT ![p] = "los"]
    /\ budget' = budget - 1
    /\ UNCHANGED <<arg, res, mref, lockVars, data, keys, rw,
                   cfgVars, obsVars, ttlVars, histVars>>

\* entry, found := c.getSafe(key)
\* if found && !entry.isExpired() { unlock(); return entry.value, nil }
ImplGetCheck(p) ==
    /\ pc[p] = "crit"
    /\ op[p] = "ImplGet"
    /\ LET g == getSafe(data, key[p]) IN
       IF g.found /\ ~isExpired(expireAt[key[p]], now)
       THEN /\ res' = [res EXCEPT ![p] = [val |-> g.val, ok |-> TRUE, err |-> Nil]]
            /\ pc' = [pc EXCEPT ![p] = "unlock"]
       ELSE /\ res' = res
            /\ pc' = [pc EXCEPT ![p] = "loader"]
    /\ UNCHANGED <<op, key, arg, mref, lockVars, data, keys, rw,
                   cfgVars, obsVars, ttlVars, budget, histVars>>

\* value, err := c.load(key); unlock() follows, the Put comes after it.
\* load: if c.loader == nil { return zero, fmt.Errorf(...) }
\*       return c.loader(key)
ImplLoad_NilLoader(p) ==
    /\ pc[p] = "loader"
    /\ op[p] \in {"ImplGet", "Refresh"}
    /\ \E o \in LoaderOutcomes :
         /\ failed' = [failed EXCEPT ![key[p]] = @ \/ o.err # Nil]
         /\ res' = [res EXCEPT ![p] = [val |-> o.val, ok |-> FALSE,
                                       err |-> o.err]]
         /\ arg' = [arg EXCEPT ![p] = IF o.err = Nil THEN o.val ELSE None]
         /\ loaded' = [loaded EXCEPT ![key[p]] =
                         IF o.err = Nil THEN o.val ELSE @]
    /\ calls' = [calls EXCEPT ![key[p]] = @ + 1]
    /\ pc' = [pc EXCEPT ![p] = "unlock"]
    /\ UNCHANGED <<op, key, mref, lockVars, data, keys, rw, cfgVars, lastPut,
                   seen, timers, eid, rwVars, dropped,
                   ttlVars, budget, touched, contended, pre, puts, onlyPuts>>

ImplLoad(p) ==
    /\ pc[p] = "loader"
    /\ op[p] \in {"ImplGet", "Refresh"}
    /\ IF ~withLoader
       THEN /\ res' = [res EXCEPT ![p] = [val |-> Zero, ok |-> FALSE,
                                          err |-> NoLoaderErr]]
            /\ arg' = [arg EXCEPT ![p] = None]
            /\ UNCHANGED <<failed, calls, loaded>>
       ELSE /\ \E o \in LoaderOutcomes :
                 /\ failed' = [failed EXCEPT ![key[p]] = @ \/ o.err # Nil]
                 /\ res' = [res EXCEPT ![p] = [val |-> o.val, ok |-> FALSE,
                                               err |-> o.err]]
                 /\ arg' = [arg EXCEPT ![p] =
                              IF o.err = Nil THEN o.val ELSE None]
                 /\ loaded' = [loaded EXCEPT ![key[p]] =
                                 IF o.err = Nil THEN o.val ELSE @]
            /\ calls' = [calls EXCEPT ![key[p]] = @ + 1]
    /\ pc' = [pc EXCEPT ![p] = "unlock"]
    /\ UNCHANGED <<op, key, mref, lockVars, data, keys, rw, cfgVars, lastPut,
                   seen, timers, eid, rwVars, dropped,
                   ttlVars, budget, touched, contended, pre, puts, onlyPuts>>

\* Put(key, value), also called by Get after a load:
\* entry := c.newEntry(key, value); c.putSafe(entry)
ImplPut_IfAbsent(p) ==
    /\ pc[p] = "iput"
    /\ data' = [data EXCEPT ![key[p]] = IF @ = None THEN arg[p] ELSE @]
    /\ expireAt' = [expireAt EXCEPT ![key[p]] =
                       newExpiration(now, expireAfterWrite)]
    /\ updated' = [updated EXCEPT ![key[p]] = now]
    /\ userTouched' = IF Sweeping THEN userTouched \cup {key[p]}
                      ELSE userTouched
    /\ lastPut' = [lastPut EXCEPT ![key[p]] = arg[p]]
    /\ pre' = [pre EXCEPT ![p] = IF op[p] = "Put" THEN data[key[p]] ELSE @]
    /\ pc' = [pc EXCEPT ![p] = "done"]
    /\ UNCHANGED <<op, key, arg, res, mref, lockVars, keys, rw, cfgVars, extVars,
                   seen, timers, eid, budget, calls, failed, touched,
                   contended, puts, onlyPuts, clockVars, sweepVars,
                   tickVars, fired, startExpired>>

ImplPut(p) ==
    /\ pc[p] = "iput"
    /\ data' = [data EXCEPT ![key[p]] = arg[p]]
    /\ expireAt' = [expireAt EXCEPT ![key[p]] =
                       newExpiration(now, expireAfterWrite)]
    /\ updated' = [updated EXCEPT ![key[p]] = now]
    /\ userTouched' = IF Sweeping THEN userTouched \cup {key[p]}
                      ELSE userTouched
    /\ lastPut' = [lastPut EXCEPT ![key[p]] = arg[p]]
    /\ pre' = [pre EXCEPT ![p] = IF op[p] = "Put" THEN data[key[p]] ELSE @]
    /\ pc' = [pc EXCEPT ![p] = "done"]
    /\ UNCHANGED <<op, key, arg, res, mref, lockVars, keys, rw, cfgVars, extVars,
                   seen, timers, eid, budget, calls, failed, touched,
                   contended, puts, onlyPuts, clockVars, sweepVars,
                   tickVars, fired, startExpired>>

\* NewCache() of CacheImpl with WithLoader: empty map
InitImpl ==
    /\ InitCommon
    /\ NoExpiration
    /\ keys = <<>>
    /\ maxSize = 0
    /\ withLoader = TRUE
    /\ impl = TRUE
    /\ active = Procs
    /\ budget = ImplCalls

NextImpl ==
    \/ \E p \in Procs : ImplStart(p)
    \/ \E p \in Procs : LockLoadOrStore(p)
    \/ \E p \in Procs : LockMu(p)
    \/ \E p \in Procs : ImplGetCheck(p)
    \/ \E p \in Procs : ImplLoad(p)
    \/ \E p \in Procs : ReleaseUnlock(p)
    \/ \E p \in Procs : ReleaseDelete(p)
    \/ \E p \in Procs : ImplPut(p)

SpecImpl == InitImpl /\ [][NextImpl]_vars

\* C2: for concurrent CacheImpl.Get(k) calls on an uncached key with a
\* succeeding loader the loader is called once, and a caller that gets the
\* key's lock after another caller's load finds the value cached.
ImplSingleFlight ==
    \A k \in LoadKeys :
        ~failed[k] =>
            /\ calls[k] <= 1
            /\ \A p \in Procs :
                 (op[p] = "ImplGet" /\ key[p] = k /\ pc[p] = "crit"
                    /\ calls[k] = 1) => data[k] # None

\* ------------------------------------- Cache (Value, bool, error), bounded

Range(q) == {q[i] : i \in 1..Len(q)}

\* WithMaxSize: c.keys = make([]Key, maxSize), maxSize zero-valued keys
MakeKeys(n) == [i \in 1..n |-> Zero]

\* the operations a goroutine may call on a Cache
CacheOps == {"Put", "Remove", "Get", "CReload", "Has", "Clear"}

\* a goroutine enters Put(k, v), Remove(k), Get(k), Reload(k), Has(k) or
\* Clear(); Reload returns an error at once when the cache has no loader
CacheStart(p) ==
    /\ p \in active
    /\ pc[p] \in {"idle", "done"}
    /\ budget > 0
    /\ \E o \in CacheOps, k \in Keys, v \in Values :
         /\ o # "Put" => v = Min(Values)
         /\ o = "Clear" => k = Min(Keys)
         /\ op' = [op EXCEPT ![p] = o]
         /\ key' = [key EXCEPT ![p] = k]
         /\ arg' = [arg EXCEPT ![p] = IF o = "Put" THEN v ELSE None]
         /\ pre' = [pre EXCEPT ![p] = IF o = "CReload" THEN data[k] ELSE None]
         /\ res' = [res EXCEPT ![p] =
                      IF o = "CReload" /\ ~withLoader
                      THEN [val |-> Zero, ok |-> FALSE, err |-> NoLoaderErr]
                      ELSE NoRes]
         /\ pc' = [pc EXCEPT ![p] =
                      CASE o = "Put" -> "pcheck"
                        [] o = "Remove" -> "remove"
                        [] o = "Get" -> "los"
                        [] o = "Has" -> "has"
                        [] o = "Clear" -> "clear"
                        [] o = "CReload" ->
                             IF withLoader THEN "remove" ELSE "done"]
         /\ onlyPuts' = (onlyPuts /\ o = "Put")
         /\ puts' = IF onlyPuts /\ o = "Put" THEN Append(puts, k) ELSE <<>>
    /\ budget' = budget - 1
    /\ UNCHANGED <<mref, lockVars, data, keys, rw, cfgVars, obsVars, ttlVars, calls, failed,
                   touched, contended>>

\* Put: entry := c.newEntry(key, value)
\*      if c.withMaxSize && len(c.keys) == c.maxSize     (read without c.mu)
CachePutCheck(p) ==
    /\ pc[p] = "pcheck"
    /\ pc' = [pc EXCEPT ![p] = IF maxSize > 0 /\ Len(keys) = maxSize
                               THEN "evictA" ELSE "psafe"]
    /\ UNCHANGED <<op, key, arg, res, mref, lockVars, data, keys, rw,
                   cfgVars, obsVars, ttlVars, budget, histVars>>

\* c.mu.Lock(); firstKey := c.keys[0]; delete(c.data, firstKey)
\* c.keys = c.keys[1:]
CacheEvictA_Callback(p) ==
    /\ pc[p] = "evictA"
    /\ rw = NoProc
    /\ Len(keys) > 0
    /\ rw' = p
    /\ data' = [data EXCEPT ![Head(keys)] = None]
    /\ updated' = [updated EXCEPT ![Head(keys)] = zeroTime]
    /\ fired' = IF withOnExpired /\ data[Head(keys)] # None
                THEN Append(fired, <<Head(keys), data[Head(keys)]>>)
                ELSE fired
    /\ keys' = Tail(keys)
    /\ pc' = [pc EXCEPT ![p] = "evictB"]
    /\ UNCHANGED <<op, key, arg, res, mref, lockVars, cfgVars, obsVars, budget,
                   histVars, clockVars, expireAt, sweepVars, tickVars,
                   startExpired, userTouched>>

CacheEvictA(p) ==
    /\ pc[p] = "evictA"
    /\ rw = NoProc
    /\ Len(keys) > 0
    /\ rw' = p
    /\ data' = [data EXCEPT ![Head(keys)] = None]
    /\ updated' = [updated EXCEPT ![Head(keys)] = zeroTime]
    /\ keys' = Tail(keys)
    /\ pc' = [pc EXCEPT ![p] = "evictB"]
    /\ UNCHANGED <<op, key, arg, res, mref, lockVars, cfgVars, obsVars, budget,
                   histVars, clockVars, expireAt, sweepVars, tickVars,
                   logVars>>

\* c.keys = append(c.keys, entry.key); c.mu.Unlock()
CacheEvictB(p) ==
    /\ pc[p] = "evictB"
    /\ rw = p
    /\ keys' = Append(keys, key[p])
    /\ rw' = NoProc
    /\ pc' = [pc EXCEPT ![p] = "psafe"]
    /\ UNCHANGED <<op, key, arg, res, mref, lockVars, data, cfgVars, obsVars, ttlVars, budget,
                   histVars>>

\* c.putSafe(entry), entry = cacheEntry{key, value, updated} of newEntry;
\* a Put called by Get returns into Get's deferred unlock
CachePutSafe(p) ==
    /\ pc[p] = "psafe"
    /\ rw = NoProc
    /\ data' = [data EXCEPT ![key[p]] = arg[p]]
    /\ updated' = [updated EXCEPT ![key[p]] = now]
    /\ pc' = [pc EXCEPT ![p] = IF op[p] = "Put" THEN "done" ELSE "unlock"]
    /\ UNCHANGED <<op, key, arg, res, mref, lockVars, keys, rw, cfgVars, obsVars,
                   budget, histVars, clockVars, expireAt, sweepVars,
                   tickVars, logVars>>

\* Remove: c.removeSafe(key); Reload goes on with c.Get(key)
CacheRemove(p) ==
    /\ pc[p] = "remove"
    /\ rw = NoProc
    /\ data' = [data EXCEPT ![key[p]] = None]
    /\ updated' = [updated EXCEPT ![key[p]] = zeroTime]
    /\ pc' = [pc EXCEPT ![p] = IF op[p] = "Remove" THEN "done" ELSE "los"]
    /\ UNCHANGED <<op, key, arg, res, mref, lockVars, keys, rw, cfgVars, obsVars,
                   budget, histVars, clockVars, expireAt, sweepVars,
                   tickVars, logVars>>

\* Clear: c.data = make(map[Key]*cacheEntry[Key, Value]) under c.mu;
\* c.keys is left as it is
CacheClear(p) ==
    /\ pc[p] = "clear"
    /\ rw = NoProc
    /\ data' = [k \in Keys |-> None]
    /\ updated' = [k \in Keys |-> zeroTime]
    /\ pc' = [pc EXCEPT ![p] = "done"]
    /\ UNCHANGED <<op, key, arg, res, mref, lockVars, keys, rw, cfgVars, obsVars,
                   budget, histVars, clockVars, expireAt, sweepVars,
                   tickVars, logVars>>

\* Has: _, found := c.getSafe(key); return found
CacheHas(p) ==
    /\ pc[p] = "has"
    /\ rw = NoProc
    /\ res' = [res EXCEPT ![p] = [val |-> Zero, ok |-> data[key[p]] # None,
                                   err |-> Nil]]
    /\ pc' = [pc EXCEPT ![p] = "done"]
    /\ UNCHANGED <<op, key, arg, mref, lockVars, data, keys, rw, cfgVars, obsVars,
                   ttlVars, budget, histVars>>

\* Get: entry, found := c.getSafe(key)
\*      if found { unlock(); return entry.value, true, nil }
CacheGetCheck(p) ==
    /\ pc[p] = "crit"
    /\ op[p] \in {"Get", "CReload"}
    /\ rw = NoProc
    /\ IF data[key[p]] # None
       THEN /\ res' = [res EXCEPT ![p] = [val |-> data[key[p]], ok |-> TRUE,
                                          err |-> Nil]]
            /\ pc' = [pc EXCEPT ![p] = "unlock"]
       ELSE /\ res' = res
            /\ pc' = [pc EXCEPT ![p] = "loader"]
    /\ UNCHANGED <<op, key, arg, mref, lockVars, data, keys, rw, cfgVars, obsVars, ttlVars,
                   budget, histVars>>

\* value, ok, err := c.load(key); if ok { c.Put(key, value) }
\* load returns (zero, false, nil) without a loader, else
\* (value, err == nil, err) of the loader
CacheLoad_StoreZero(p) ==
    /\ pc[p] = "loader"
    /\ op[p] \in {"Get", "CReload"}
    /\ IF ~withLoader
       THEN /\ res' = [res EXCEPT ![p] = [val |-> Zero, ok |-> TRUE,
                                          err |-> Nil]]
            /\ pc' = [pc EXCEPT ![p] = "pcheck"]
            /\ arg' = [arg EXCEPT ![p] = Zero]
       ELSE /\ \E o \in LoaderOutcomes :
                 /\ res' = [res EXCEPT ![p] = [val |-> o.val,
                                ok |-> o.err = Nil, err |-> o.err]]
                 /\ arg' = [arg EXCEPT ![p] = IF o.err = Nil THEN o.val ELSE None]
                 /\ pc' = [pc EXCEPT ![p] = IF o.err = Nil THEN "pcheck"
                                            ELSE "unlock"]
    /\ UNCHANGED <<op, key, mref, lockVars, data, keys, rw, cfgVars, obsVars, ttlVars, budget,
                   histVars>>

CacheLoad(p) ==
    /\ pc[p] = "loader"
    /\ op[p] \in {"Get", "CReload"}
    /\ IF ~withLoader
       THEN /\ res' = [res EXCEPT ![p] = NoRes]
            /\ pc' = [pc EXCEPT ![p] = "unlock"]
            /\ arg' = arg
       ELSE /\ \E o \in LoaderOutcomes :
                 /\ res' = [res EXCEPT ![p] = [val |-> o.val,
                                ok |-> o.err = Nil, err |-> o.err]]
                 /\ arg' = [arg EXCEPT ![p] = IF o.err = Nil THEN o.val ELSE None]
                 /\ pc' = [pc EXCEPT ![p] = IF o.err = Nil THEN "pcheck"
                                            ELSE "unlock"]
    /\ UNCHANGED <<op, key, mref, lockVars, data, keys, rw, cfgVars, obsVars, ttlVars, budget,
                   histVars>>

\* NewCache(options...): WithMaxSize(n) for some n, with or without loader
InitCache ==
    /\ InitCommon
    /\ maxSize \in 0..MaxCap
    /\ keys = MakeKeys(maxSize)
    /\ withLoader \in BOOLEAN
    /\ impl = FALSE

\* one goroutine issues the calls one after the other
InitCacheSeq ==
    /\ InitCache
    /\ NoExpiration
    /\ active = {Min(Procs)}
    /\ budget = SeqOps

\* two goroutines issue calls concurrently
InitCacheConc ==
    /\ InitCache
    /\ NoExpiration
    /\ active = {p \in Procs : p <= 2}
    /\ budget = ConcOps

NextCache ==
    \/ \E p \in Procs : CacheStart(p)
    \/ \E p \in Procs : CachePutCheck(p)
    \/ \E p \in Procs : CacheEvictA(p)
    \/ \E p \in Procs : CacheEvictB(p)
    \/ \E p \in Procs : CachePutSafe(p)
    \/ \E p \in Procs : CacheRemove(p)
    \/ \E p \in Procs : CacheClear(p)
    \/ \E p \in Procs : CacheHas(p)
    \/ \E p \in Procs : LockLoadOrStore(p)
    \/ \E p \in Procs : LockMu(p)
    \/ \E p \in Procs : CacheGetCheck(p)
    \/ \E p \in Procs : CacheLoad(p)
    \/ \E p \in Procs : ReleaseUnlock(p)
    \/ \E p \in Procs : ReleaseDelete(p)

SpecCacheSeq == InitCacheSeq /\ [][NextCache]_vars

SpecCacheConc == InitCacheConc /\ [][NextCache]_vars

\* ---------------------------------------------------------- Cache: claims

\* the keys of a sequence are pairwise distinct
Distinct(q) == \A i, j \in 1..Len(q) : i # j => q[i] # q[j]

\* the last n elements of a sequence, as a set
LastN(q, n) == {q[i] : i \in {j \in 1..Len(q) : j > Len(q) - n}}

Stored == {k \in Keys : data[k] # None}

\* C7: when k is cached with value v and the loader returns an error,
\* Reload(k) returns (zero, false, that error) and a following Get(k)
\* still returns (v, true).
CacheReloadErrorKeepsEntry ==
    \A p \in Procs :
        (op[p] = "CReload" /\ pc[p] = "done" /\ pre[p] # None
           /\ res[p].err \in Errs) =>
            /\ res[p].val = Zero /\ ~res[p].ok
            /\ data[key[p]] = pre[p]

\* C8: after Put of maxSize + k pairwise distinct keys (k >= 1) into an
\* empty bounded cache, Count() = maxSize and the stored keys are the
\* maxSize most recently inserted ones, whatever the key values.
FifoBound ==
    (Quiescent /\ maxSize > 0 /\ onlyPuts /\ Distinct(puts)
       /\ Len(puts) > maxSize) =>
        /\ Count = maxSize
        /\ Stored = LastN(puts, maxSize)

\* C9: under any interleaving of Puts on a bounded cache, Count() never
\* exceeds maxSize and every key of the map occurs in the key sequence
\* (observed while no Put is inside its eviction section).
CapacityInvariant ==
    (maxSize > 0 /\ rw = NoProc) =>
        /\ Count <= maxSize
        /\ Stored \subseteq Range(keys)

\* C10: a Put on a bounded cache deletes the entry of another key only
\* when the cache holds maxSize entries and the key being put is new: not
\* during the initial fill and not after a Remove has freed a slot.
PutEvictsOnlyWhenFull ==
    [][\A p \in Procs :
         (pc[p] = "evictA" /\ pc'[p] = "evictB"
            /\ \E k \in Keys \ {key[p]} : data[k] # None /\ data'[k] = None) =>
             (Count = maxSize /\ data[key[p]] = None)]_vars

\* C11: a Put of a key that is already present in a bounded cache only
\* replaces the value: no step of it changes the set of stored keys or the
\* key sequence (no eviction, no move, no second occurrence of the key).
PutExistingOnlyReplaces ==
    [][\A p \in Procs :
         (maxSize > 0 /\ op[p] = "Put" /\ data[key[p]] # None
            /\ pc[p] \in {"pcheck", "evictA", "evictB", "psafe"}) =>
             (Stored' = Stored /\ keys' = keys)]_vars

\* Keys() of a bounded cache: if c.withMaxSize { return c.keys }
BoundedKeys == keys

\* C12: after any calls of Put, Remove and Clear, Keys() of a bounded cache
\* lists exactly the stored keys, each once, oldest insertion first, also
\* while fewer than maxSize keys were put.
KeysReflectStore ==
    (maxSize > 0 /\ \E p \in Procs : /\ pc[p] = "done"
                                     /\ op[p] \in {"Put", "Remove", "Clear"}) =>
        /\ Range(BoundedKeys) = Stored
        /\ Distinct(BoundedKeys)
        /\ (onlyPuts /\ Distinct(puts) /\ Len(puts) <= maxSize) =>
               BoundedKeys = puts

\* ------------------------------------------------------- clock and ticker

\* time passes; the unit is coarser than one Put, whose time.Now() and
\* putSafe fall into the same unit
Tick ==
    /\ now < MaxTime
    /\ \A p \in Procs : pc[p] \notin {"pcheck", "evictA", "evictB", "psafe"}
    /\ now' = now + 1
    /\ UNCHANGED <<procVars, lockVars, data, keys, rw, cfgVars, obsVars, budget,
                   histVars, expireAfterWrite, withOnExpired, entVars,
                   sweepVars, tickVars, logVars>>

\* ticker.start, case <-ticker.C: tick()
TickerTick ==
    /\ spc = "wait"
    /\ spc' = "keys"
    /\ final' = FALSE
    /\ UNCHANGED <<procVars, lockVars, data, keys, rw, cfgVars, obsVars, budget,
                   histVars, clockVars, entVars, skeys, sent, tickVars,
                   logVars>>

\* ticker.start, case <-t.done: tick(); return
TickerDone_NoTick ==
    /\ spc = "wait"
    /\ closes > 0
    /\ spc' = "exit"
    /\ final' = FALSE
    /\ UNCHANGED <<procVars, lockVars, data, keys, rw, cfgVars, obsVars, budget,
                   histVars, clockVars, entVars, skeys, sent, tickVars,
                   logVars>>

TickerDone ==
    /\ spc = "wait"
    /\ closes > 0
    /\ spc' = "keys"
    /\ final' = TRUE
    /\ UNCHANGED <<procVars, lockVars, data, keys, rw, cfgVars, obsVars, budget,
                   histVars, clockVars, entVars, skeys, sent, tickVars,
                   logVars>>

\* ticker.start, case <-t.ctx.Done(): t.stop()
\* ticker.stop: t.once.Do(func() { close(t.done) })
TickerCtxDone_NoOnce ==
    /\ spc = "wait"
    /\ ctxDone
    /\ closes < 2
    /\ closes' = closes + 1
    /\ once' = TRUE
    /\ UNCHANGED <<procVars, lockVars, data, keys, rw, cfgVars, obsVars, budget,
                   histVars, clockVars, entVars, sweepVars, ctxDone,
                   logVars>>

TickerCtxDone ==
    /\ spc = "wait"
    /\ ctxDone
    /\ closes' = IF once THEN closes ELSE closes + 1
    /\ once' = TRUE
    /\ UNCHANGED <<procVars, lockVars, data, keys, rw, cfgVars, obsVars, budget,
                   histVars, clockVars, entVars, sweepVars, ctxDone,
                   logVars>>

\* ------------------------------------------------ CacheImpl with a TTL

\* the operations a goroutine may call on a CacheImpl
ImplOps == {"Put", "Remove", "GetIfPresent", "Has", "Count", "Close"}

\* a goroutine enters one of ImplOps
ImplCall(p) ==
    /\ p \in active
    /\ pc[p] \in {"idle", "done"}
    /\ budget > 0
    /\ \E o \in ImplOps, k \in LoadKeys, v \in Values :
         /\ o # "Put" => v = Min(Values)
         /\ o \in {"Count", "Close"} => k = Min(LoadKeys)
         /\ op' = [op EXCEPT ![p] = o]
         /\ key' = [key EXCEPT ![p] = k]
         /\ arg' = [arg EXCEPT ![p] = IF o = "Put" THEN v ELSE None]
         /\ pc' = [pc EXCEPT ![p] =
                      CASE o = "Put" -> "iput"
                        [] o = "Remove" -> "iremove"
                        [] o \in {"GetIfPresent", "Has"} -> "ifp"
                        [] o = "Count" -> "icount"
                        [] o = "Close" -> "iclose"]
    /\ res' = [res EXCEPT ![p] = NoRes]
    /\ pre' = [pre EXCEPT ![p] = None]
    /\ budget' = budget - 1
    /\ UNCHANGED <<mref, lockVars, data, keys, rw, cfgVars, obsVars, calls,
                   failed, touched, contended, puts, onlyPuts, ttlVars>>

\* Remove: c.removeSafe(key)
ImplRemove_Clear(p) ==
    /\ pc[p] = "iremove"
    /\ data' = [k \in Keys |-> None]
    /\ expireAt' = [expireAt EXCEPT ![key[p]] = zeroTime]
    /\ updated' = [updated EXCEPT ![key[p]] = zeroTime]
    /\ userTouched' = IF Sweeping THEN userTouched \cup {key[p]}
                      ELSE userTouched
    /\ lastPut' = [lastPut EXCEPT ![key[p]] = None]
    /\ pre' = [pre EXCEPT ![p] = data[key[p]]]
    /\ pc' = [pc EXCEPT ![p] = "done"]
    /\ UNCHANGED <<op, key, arg, res, mref, lockVars, keys, rw, cfgVars, extVars,
                   seen, timers, eid, budget, calls, failed, touched,
                   contended, puts, onlyPuts, clockVars, sweepVars,
                   tickVars, fired, startExpired>>

ImplRemove(p) ==
    /\ pc[p] = "iremove"
    /\ data' = [data EXCEPT ![key[p]] = None]
    /\ expireAt' = [expireAt EXCEPT ![key[p]] = zeroTime]
    /\ updated' = [updated EXCEPT ![key[p]] = zeroTime]
    /\ userTouched' = IF Sweeping THEN userTouched \cup {key[p]}
                      ELSE userTouched
    /\ lastPut' = [lastPut EXCEPT ![key[p]] = None]
    /\ pre' = [pre EXCEPT ![p] = data[key[p]]]
    /\ pc' = [pc EXCEPT ![p] = "done"]
    /\ UNCHANGED <<op, key, arg, res, mref, lockVars, keys, rw, cfgVars, extVars,
                   seen, timers, eid, budget, calls, failed, touched,
                   contended, puts, onlyPuts, clockVars, sweepVars,
                   tickVars, fired, startExpired>>

\* GetIfPresent: entry, found := c.getSafe(key)
\*   if found && !entry.isExpired() { return entry.value, true }
\*   return zero, false
\* Has: _, found := c.GetIfPresent(key); return found
ImplGetIfPresent_NoExpiry(p) ==
    /\ pc[p] = "ifp"
    /\ LET g == getSafe(data, key[p]) IN
       res' = [res EXCEPT ![p] =
                 IF g.found
                 THEN [val |-> IF op[p] = "Has" THEN Zero ELSE g.val,
                       ok |-> TRUE, err |-> Nil]
                 ELSE NoRes]
    /\ pc' = [pc EXCEPT ![p] = "done"]
    /\ UNCHANGED <<op, key, arg, mref, lockVars, data, keys, rw, cfgVars, obsVars,
                   budget, histVars, ttlVars>>

ImplGetIfPresent(p) ==
    /\ pc[p] = "ifp"
    /\ LET g == getSafe(data, key[p]) IN
       res' = [res EXCEPT ![p] =
                 IF g.found /\ ~isExpired(expireAt[key[p]], now)
                 THEN [val |-> IF op[p] = "Has" THEN Zero ELSE g.val,
                       ok |-> TRUE, err |-> Nil]
                 ELSE NoRes]
    /\ pc' = [pc EXCEPT ![p] = "done"]
    /\ UNCHANGED <<op, key, arg, mref, lockVars, data, keys, rw, cfgVars, obsVars,
                   budget, histVars, ttlVars>>

\* nonExpiredEntries: the keys of the entries with !entry.isExpired()
nonExpiredEntries_Raw(d, ea, t) == {k \in Keys : d[k] # None}

nonExpiredEntries(d, ea, t) ==
    {k \in Keys : d[k] # None /\ ~isExpired(ea[k], t)}

\* a sequence that lists the elements of a set once each, as maps.Keys
\* does for the keys of a map
RECURSIVE SetToSeq(_)
SetToSeq(S) == IF S = {} THEN <<>>
               ELSE LET x == Min(S) IN <<x>> \o SetToSeq(S \ {x})

\* Count: return len(c.nonExpiredEntries())
ImplCountOf(d, ea, t) == Cardinality(nonExpiredEntries(d, ea, t))

\* Keys: return maps.Keys(c.nonExpiredEntries())
ImplKeys(d, ea, t) == SetToSeq(nonExpiredEntries(d, ea, t))

\* Values: values[i] = entries[i].value for the nonExpiredEntries
ImplValues(d, ea, t) ==
    LET ks == ImplKeys(d, ea, t) IN [i \in 1..Len(ks) |-> d[ks[i]]]

\* ToMap: m[key] = entry.value for the nonExpiredEntries
ImplToMap(d, ea, t) == [k \in nonExpiredEntries(d, ea, t) |-> d[k]]

\* ForEach: fn(key, entry.value) for the nonExpiredEntries, the calls made
ImplForEach(d, ea, t) ==
    LET ks == ImplKeys(d, ea, t) IN [i \in 1..Len(ks) |-> <<ks[i], d[ks[i]]>>]

\* a goroutine calls Count()
ImplCount(p) ==
    /\ pc[p] = "icount"
    /\ res' = [res EXCEPT ![p] = [val |-> ImplCountOf(data, expireAt, now),
                                   ok |-> TRUE, err |-> Nil]]
    /\ pc' = [pc EXCEPT ![p] = "done"]
    /\ UNCHANGED <<op, key, arg, mref, lockVars, data, keys, rw, cfgVars, obsVars,
                   budget, histVars, ttlVars>>

\* Close: if c.cancel != nil { c.cancel() }; cancel is set together with
\* the ticker
ImplClose(p) ==
    /\ pc[p] = "iclose"
    /\ ctxDone' = (ctxDone \/ spc # "none")
    /\ pc' = [pc EXCEPT ![p] = "done"]
    /\ UNCHANGED <<op, key, arg, res, mref, lockVars, data, keys, rw,
                   cfgVars, obsVars, budget, histVars, clockVars, entVars, sweepVars,
                   once, closes, logVars>>

\* cleanup: c.mu.RLock(); keys := maps.Keys(c.entries); c.mu.RUnlock()
ImplCleanupKeys ==
    /\ spc = "keys"
    /\ skeys' = {k \in Keys : data[k] # None}
    /\ spc' = "get"
    /\ startExpired' = {<<k, data[k]>> : k \in
                          {j \in Keys : data[j] # None
                                          /\ isExpired(expireAt[j], now)}}
    /\ userTouched' = {}
    /\ fired' = <<>>
    /\ UNCHANGED <<procVars, lockVars, data, keys, rw, cfgVars, obsVars, budget,
                   histVars, clockVars, entVars, sent, final, tickVars>>

\* cleanup, per key: entry, found := c.getSafe(key)
\*                   if found && entry.isExpired() { ... }
\* maps.Keys gives the keys in any order
ImplCleanupGet ==
    /\ spc = "get"
    /\ \E k \in skeys :
         /\ skeys' = skeys \ {k}
         /\ IF data[k] # None /\ isExpired(expireAt[k], now)
            THEN /\ sent' = [key |-> k, val |-> data[k], exp |-> expireAt[k]]
                 /\ spc' = "remove"
            ELSE /\ sent' = sent
                 /\ spc' = spc
    /\ UNCHANGED <<procVars, lockVars, data, keys, rw, cfgVars, obsVars, budget,
                   histVars, clockVars, entVars, final, tickVars, logVars>>

\* cleanup, expired entry: c.removeSafe(key)
\*   if c.onExpired != nil { c.onExpired(entry.key, entry.value) }
ImplCleanupRemove_NoCallback ==
    /\ spc = "remove"
    /\ data' = [data EXCEPT ![sent.key] = None]
    /\ expireAt' = [expireAt EXCEPT ![sent.key] = zeroTime]
    /\ updated' = [updated EXCEPT ![sent.key] = zeroTime]
    /\ fired' = fired
    /\ lastPut' = [lastPut EXCEPT ![sent.key] = None]
    /\ sent' = NoEntry
    /\ spc' = "get"
    /\ UNCHANGED <<procVars, lockVars, keys, rw, cfgVars, extVars, seen, timers,
                   eid, budget, histVars,
                   clockVars, skeys, final, tickVars, startExpired,
                   userTouched>>

ImplCleanupRemove ==
    /\ spc = "remove"
    /\ data' = [data EXCEPT ![sent.key] = None]
    /\ expireAt' = [expireAt EXCEPT ![sent.key] = zeroTime]
    /\ updated' = [updated EXCEPT ![sent.key] = zeroTime]
    /\ fired' = IF withOnExpired THEN Append(fired, <<sent.key, sent.val>>)
                ELSE fired
    /\ lastPut' = [lastPut EXCEPT ![sent.key] = None]
    /\ sent' = NoEntry
    /\ spc' = "get"
    /\ UNCHANGED <<procVars, lockVars, keys, rw, cfgVars, extVars, seen, timers,
                   eid, budget, histVars,
                   clockVars, skeys, final, tickVars, startExpired,
                   userTouched>>

\* cleanup returns: the ticker waits again, or exits after the last tick
CleanupEnd ==
    /\ spc = "get"
    /\ skeys = {}
    /\ spc' = IF final THEN "exit" ELSE "wait"
    /\ final' = FALSE
    /\ fired' = <<>>
    /\ startExpired' = {}
    /\ userTouched' = {}
    /\ seen' = {}
    /\ UNCHANGED <<procVars, lockVars, data, keys, rw, cfgVars, extVars, lastPut,
                   timers, eid, budget,
                   histVars, clockVars, entVars, skeys, sent, tickVars>>

\* NewCache(WithExpireAfterWrite(d), WithOnExpired(fn)) of CacheImpl, each
\* option used or not; the ticker exists only with a TTL
InitSweep ==
    /\ InitCommon
    /\ keys = <<>>
    /\ maxSize = 0
    /\ withLoader = FALSE
    /\ impl = TRUE
    /\ active = {Min(Procs)}
    /\ budget = SweepOps
    /\ expireAfterWrite \in 0..MaxTTL
    /\ withOnExpired \in BOOLEAN
    /\ spc = IF expireAfterWrite > 0 THEN "wait" ELSE "none"

NextSweep ==
    \/ \E p \in Procs : ImplCall(p)
    \/ \E p \in Procs : ImplPut(p)
    \/ \E p \in Procs : ImplRemove(p)
    \/ \E p \in Procs : ImplGetIfPresent(p)
    \/ \E p \in Procs : ImplCount(p)
    \/ \E p \in Procs : ImplClose(p)
    \/ Tick
    \/ TickerTick
    \/ TickerDone
    \/ TickerCtxDone
    \/ ImplCleanupKeys
    \/ ImplCleanupGet
    \/ ImplCleanupRemove
    \/ CleanupEnd

SpecSweep == InitSweep /\ [][NextSweep]_vars

\* ------------------------------------------- CacheImpl with a TTL: claims

\* k has an entry whose TTL, counted from its write, has not elapsed
Live(k) ==
    /\ data[k] # None
    /\ (expireAfterWrite = 0 \/ now <= updated[k] + expireAfterWrite)

LiveKeys == {k \in Keys : Live(k)}

\* C13: GetIfPresent(k) returns (v, true) iff k has an entry that is not
\* expired, else (zero, false); Has(k) returns that flag; an expired entry
\* not yet swept is reported absent and neither call changes the cache.
GetIfPresentReportsLive ==
    [][\A p \in Procs :
         (pc[p] = "ifp" /\ pc'[p] = "done") =>
             /\ res'[p].ok = Live(key[p])
             /\ op[p] = "GetIfPresent" =>
                    res'[p].val = IF Live(key[p]) THEN data[key[p]] ELSE Zero
             /\ UNCHANGED <<data, entVars>>]_vars

\* C13 witness: GetIfPresent returned (zero, false) for a key whose expired
\* entry is still in the map.
GetIfPresentWitness ==
    \E p \in Procs :
        /\ op[p] = "GetIfPresent" /\ pc[p] = "done"
        /\ res[p] = NoRes
        /\ data[key[p]] # None /\ ~Live(key[p])

\* C15: Count, Keys, Values, ToMap and ForEach report exactly the entries
\* that are present and not expired, each once, and agree in size.
ViewsAgree ==
    LET ks == ImplKeys(data, expireAt, now)
        vs == ImplValues(data, expireAt, now)
        tm == ImplToMap(data, expireAt, now)
        fe == ImplForEach(data, expireAt, now)
        n == ImplCountOf(data, expireAt, now)
    IN /\ n = Cardinality(LiveKeys)
       /\ Range(ks) = LiveKeys /\ Len(ks) = n
       /\ Len(vs) = n /\ \A i \in 1..n : vs[i] = data[ks[i]]
       /\ DOMAIN tm = LiveKeys /\ \A k \in LiveKeys : tm[k] = data[k]
       /\ Len(fe) = n /\ Distinct(fe)
       /\ Range(fe) = {<<k, data[k]>> : k \in LiveKeys}

NonExpiredViews ==
    [][/\ ViewsAgree'
       /\ \A p \in Procs :
            (pc[p] = "icount" /\ pc'[p] = "done") =>
                res'[p].val = Cardinality(LiveKeys)]_vars

\* C15 witness: Count returned 1 while the map held two entries, one of
\* them expired and not yet swept.
NonExpiredViewsWitness ==
    \E p \in Procs :
        /\ op[p] = "Count" /\ pc[p] = "done" /\ res[p].val = 1
        /\ Cardinality(Stored) = 2
        /\ Cardinality(LiveKeys) = 1

\* C16: isExpired is true iff the expiration is not the zero time and the
\* time is strictly after it; isValid is its negation; an entry written at
\* w with TTL d is valid up to w + d and expired after it.
ExpiryBoundary ==
    /\ \A e \in 0..(MaxTime + MaxTTL), t \in 1..MaxTime :
         /\ isExpired(e, t) <=> (e # zeroTime /\ t > e)
         /\ isValid(e, t) <=> ~isExpired(e, t)
    /\ \A k \in Stored :
         /\ isValid(expireAt[k], now) <=> Live(k)
         /\ expireAfterWrite > 0 =>
                \A t \in 1..MaxTime :
                    isExpired(expireAt[k], t) <=>
                        t > updated[k] + expireAfterWrite
         /\ expireAfterWrite = 0 =>
                \A t \in 1..MaxTime : isValid(expireAt[k], t)

\* C16 witness: the clock equals the expiration of one stored entry, which
\* GetIfPresent reports, and is past the expiration of another.
ExpiryBoundaryWitness ==
    \E p \in Procs : \E j \in Stored :
        /\ op[p] = "GetIfPresent" /\ pc[p] = "done" /\ res[p].ok
        /\ data[key[p]] # None
        /\ expireAt[key[p]] = now
        /\ isExpired(expireAt[j], now)

\* C17: when a cleanup ends, every entry that was expired when it began
\* and whose key was neither put nor removed meanwhile is gone and
\* onExpired was invoked once for it, with its key and value; onExpired is
\* invoked in the step that leaves the key without entry, so never twice
\* for one entry.
SweepRemovesExpired ==
    [][/\ (spc = "get" /\ spc' \in {"wait", "exit"}) =>
            \A e \in startExpired :
                e[1] \notin userTouched =>
                    /\ data[e[1]] = None
                    /\ withOnExpired =>
                         /\ \E i \in 1..Len(fired) : fired[i] = e
                         /\ Cardinality({i \in 1..Len(fired) :
                                            fired[i][1] = e[1]}) = 1
       /\ (spc = "remove" /\ spc' = "get") =>
            /\ data'[sent.key] = None
            /\ withOnExpired => fired' = Append(fired, <<sent.key, sent.val>>)
            /\ ~withOnExpired => fired' = fired
       /\ \A i, j \in 1..Len(fired') : i # j => fired'[i][1] # fired'[j][1]
      ]_vars

\* C17 witness: a cleanup reached its end having removed two expired
\* entries, onExpired invoked for both, no caller having touched them.
SweepWitness ==
    /\ spc = "get" /\ skeys = {}
    /\ Cardinality(startExpired) = 2
    /\ userTouched = {}
    /\ Len(fired) = 2
    /\ Stored = {}

\* C18: the entry a cleanup deletes is expired at the moment of deletion.
SweepDeletesOnlyExpired ==
    [][(spc = "remove" /\ spc' = "get" /\ data[sent.key] # None) =>
           isExpired(expireAt[sent.key], now)]_vars

\* C20: Close may be called any number of times, with or without ticker:
\* each call can return and t.done is closed at most once.
CloseIdempotent ==
    /\ closes <= 1
    /\ once <=> closes = 1
    /\ \A p \in Procs : pc[p] = "iclose" => ENABLED ImplClose(p)
    /\ spc = "none" => ~ctxDone

\* C20 witness: the ticker has closed t.done once and exited after its
\* last cleanup, and another Close is being called on the closed cache.
CloseWitness ==
    \E p \in Procs :
        /\ pc[p] = "iclose"
        /\ ctxDone /\ closes = 1 /\ spc = "exit"

\* ------------------------------------------ Cache with a TTL and ticker

\* cacheEntry.isExpired(expireAfterWrite) of an entry made at time u:
\* if expireAfterWrite > 0 { return now.Sub(e.updated) > expireAfterWrite }
\* return false
isExpiredAfterWrite_NoGuard(u, d, t) == t - u > d

isExpiredAfterWrite(u, d, t) == d > 0 /\ t - u > d

\* cleanup: keys := c.Keys(), c.keys when bounded, else the keys of c.data
CacheCleanupKeys ==
    /\ spc = "keys"
    /\ skeys' = IF maxSize > 0 THEN Range(keys)
                ELSE {k \in Keys : data[k] # None}
    /\ spc' = "get"
    /\ fired' = <<>>
    /\ seen' = {}
    /\ UNCHANGED <<procVars, lockVars, data, keys, rw, cfgVars, extVars, lastPut,
                   timers, eid, budget,
                   histVars, clockVars, entVars, sent, final, tickVars,
                   startExpired, userTouched>>

\* cleanup, per key: entry, found := c.getSafe(key)
\*                   if found && entry.isExpired(c.expireAfterWrite) { ... }
CacheCleanupGet ==
    /\ spc = "get"
    /\ rw = NoProc
    /\ \E k \in skeys :
         /\ skeys' = skeys \ {k}
         /\ seen' = IF expireAfterWrite = 0 THEN seen \cup {k} ELSE seen
         /\ IF data[k] # None
               /\ isExpiredAfterWrite(updated[k], expireAfterWrite, now)
            THEN /\ sent' = [key |-> k, val |-> data[k], exp |-> updated[k]]
                 /\ spc' = "remove"
            ELSE /\ sent' = sent
                 /\ spc' = spc
    /\ UNCHANGED <<procVars, lockVars, data, keys, rw, cfgVars, extVars, lastPut,
                   timers, eid, budget,
                   histVars, clockVars, entVars, final, tickVars, logVars>>

\* cleanup, expired entry: c.removeSafe(key)
\*   if c.onExpired != nil { c.onExpired(entry.key, entry.value) }
CacheCleanupRemove ==
    /\ spc = "remove"
    /\ rw = NoProc
    /\ data' = [data EXCEPT ![sent.key] = None]
    /\ updated' = [updated EXCEPT ![sent.key] = zeroTime]
    /\ fired' = IF withOnExpired THEN Append(fired, <<sent.key, sent.val>>)
                ELSE fired
    /\ sent' = NoEntry
    /\ spc' = "get"
    /\ UNCHANGED <<procVars, lockVars, keys, rw, cfgVars, obsVars, budget, histVars,
                   clockVars, expireAt, skeys, final, tickVars, startExpired,
                   userTouched>>

\* NewCache(WithExpireAfterWrite(d), WithMaxSize(n), ...) without loader:
\* the ticker is started by NewCache, with a TTL or without (then with
\* an onExpired callback); one goroutine issues the calls
InitCacheTTL ==
    /\ InitCache
    /\ ~withLoader
    /\ active = {Min(Procs)}
    /\ budget = TtlOps
    /\ expireAfterWrite \in 0..MaxTTL
    /\ withOnExpired \in BOOLEAN
    /\ expireAfterWrite = 0 => withOnExpired
    /\ spc = "wait"

NextCacheTTL ==
    \/ NextCache
    \/ Tick
    \/ TickerTick
    \/ CacheCleanupKeys
    \/ CacheCleanupGet
    \/ CacheCleanupRemove
    \/ CleanupEnd

SpecCacheTTL == InitCacheTTL /\ [][NextCacheTTL]_vars

\* ---------------------------------- Cache with a TTL and ticker: claims

\* C14: once more than d has elapsed since the last Put(k), Get(k) does not
\* return k's entry and Has(k) is false, swept or not.
ExpiredEntryNotServed ==
    [][\A p \in Procs :
         LET stale == isExpiredAfterWrite(updated[key[p]],
                                          expireAfterWrite, now) IN
         /\ (op[p] = "Get" /\ pc[p] = "crit" /\ pc'[p] = "unlock") => ~stale
         /\ (pc[p] = "has" /\ pc'[p] = "done" /\ res'[p].ok) => ~stale]_vars

\* C19: onExpired is invoked only by cleanup, for the entry it examined
\* and found expired; the steps of Put (eviction included), Remove and
\* Clear invoke nothing.
OnExpiredOnlyOnExpiry ==
    [][/\ Len(fired') > Len(fired) =>
            /\ spc = "remove" /\ spc' = "get"
            /\ fired' = Append(fired, <<sent.key, sent.val>>)
       /\ (spc = "get" /\ spc' = "remove") =>
            /\ data[sent'.key] = sent'.val
            /\ now - updated[sent'.key] > expireAfterWrite
       /\ \A p \in Procs :
            (pc[p] \in {"pcheck", "evictA", "evictB", "psafe", "remove",
                        "clear"} /\ pc'[p] # pc[p]) => fired' = fired
      ]_vars

\* C19 witness: with TTL and onExpired configured and no time elapsed, a
\* Put on a full bounded cache has evicted the entry of an earlier Put and
\* onExpired was not invoked.
EvictionSilentWitness ==
    /\ now = 1 /\ withOnExpired /\ maxSize > 0
    /\ Quiescent /\ onlyPuts /\ Distinct(puts)
    /\ \E i \in 1..Len(puts) : puts[i] # Zero /\ puts[i] \notin Stored
    /\ fired = <<>>

\* C28: without a loader, a Get of a key that has no entry returns
\* (zero, false, nil); no step of that Get changes the map or the key slice.
GetMissIsNotAnError ==
    [][\A p \in Procs :
         (~withLoader /\ op[p] = "Get" /\ pc'[p] # pc[p]) =>
            /\ (pc[p] = "crit" /\ data[key[p]] = None) => pc'[p] = "loader"
            /\ pc[p] = "loader" => (res'[p] = NoRes /\ pc'[p] = "unlock")
            /\ pc[p] \in {"unlock", "delete"} => res'[p] = res[p]
            /\ pc[p] \notin {"idle", "done"} =>
                 (data' = data /\ keys' = keys)]_vars

\* C28 witness: a Get of an absent key has returned not-found without an
\* error while another key is cached.
GetMissWitness ==
    \E p \in Procs : \E j \in Keys :
        /\ ~withLoader /\ op[p] = "Get" /\ pc[p] = "done"
        /\ res[p] = NoRes
        /\ data[key[p]] = None /\ data[j] # None

\* C29: with expireAfterWrite = 0 no entry tests as expired however old it
\* is, the cleanup never reaches its removal branch and records no
\* onExpired call, and an entry leaves the map only in a step of a Put
\* (eviction), Remove or Clear.
NoTTLNeverExpires ==
    [][expireAfterWrite = 0 =>
         /\ \A u, t \in 0..MaxTime :
              ~isExpiredAfterWrite(u, expireAfterWrite, t)
         /\ spc' # "remove" /\ fired' = <<>>
         /\ \A k \in Keys :
              (data[k] # None /\ data'[k] = None) =>
                 \E p \in Procs : /\ pc'[p] # pc[p]
                                  /\ op[p] \in {"Put", "Remove", "Clear"}]_vars

\* C29 witness: without a TTL, the running cleanup has examined an entry
\* written at an earlier time and the entry is still stored.
NoTTLWitness ==
    \E k \in seen :
        /\ expireAfterWrite = 0 /\ spc = "get"
        /\ data[k] # None /\ now > updated[k]

\* ------------------------------------------- CacheImpl: the ticker's end

\* the ticker goroutine and the cleanup it runs keep being scheduled, and
\* select, which picks among its ready cases at random, does not pass over
\* a case that is ready again and again; callers and the clock are free
SpecSweepLive ==
    /\ SpecSweep
    /\ WF_vars(ImplCleanupKeys)
    /\ WF_vars(ImplCleanupGet)
    /\ WF_vars(ImplCleanupRemove)
    /\ WF_vars(CleanupEnd)
    /\ SF_vars(TickerCtxDone)
    /\ SF_vars(TickerDone)

\* C23: once Close has cancelled the context the ticker goroutine
\* eventually returns, and it returns only at the end of a last cleanup,
\* after which every entry that was expired when that cleanup began and
\* was not written or removed by a caller meanwhile is gone, with onExpired
\* invoked for it.
FinalSweepOnClose ==
    /\ ctxDone ~> (spc = "exit")
    /\ [][(spc # "exit" /\ spc' = "exit") =>
            /\ final /\ spc = "get"
            /\ \A e \in startExpired :
                 e[1] \notin userTouched =>
                    /\ data[e[1]] = None
                    /\ withOnExpired =>
                         \E i \in 1..Len(fired) : fired[i] = e]_vars

\* C23 witness: after Close, the last cleanup has reached its end having
\* removed an expired entry and invoked onExpired for it.
FinalSweepWitness ==
    /\ ctxDone /\ final
    /\ spc = "get" /\ skeys = {}
    /\ startExpired # {}
    /\ Len(fired) = Cardinality(startExpired)
    /\ \A e \in startExpired : data[e[1]] = None

\* ------------------------------------- CacheImpl: Put, Remove, Close claims

\* C22: once Close has returned the cache holds no entry.
CloseClears ==
    \A p \in Procs :
        (op[p] = "Close" /\ pc[p] = "done") => \A k \in Keys : data[k] = None

\* C25: a key whose last write was Put(k, v), not removed or swept since,
\* holds exactly v, and a GetIfPresent of it before it expires returns
\* (v, true).
LastWriteWins ==
    [][/\ \A k \in Keys : lastPut'[k] # None => data'[k] = lastPut'[k]
       /\ \A p \in Procs :
            (/\ op[p] = "GetIfPresent" /\ pc[p] = "ifp" /\ pc'[p] = "done"
             /\ lastPut[key[p]] # None
             /\ ~isExpired(expireAt[key[p]], now)) =>
                res'[p] = [val |-> lastPut[key[p]], ok |-> TRUE,
                           err |-> Nil]]_vars

\* C25 witness: a Put has replaced a different value of its key.
LastWriteWitness ==
    \E p \in Procs :
        /\ op[p] = "Put" /\ pc[p] = "done"
        /\ pre[p] \notin {None, arg[p]}
        /\ data[key[p]] = arg[p]

\* C26: Remove(k) leaves k without an entry (Has(k) is false), leaves the
\* entry of every other key as it was, and lowers the number of entries by
\* one exactly when k had an entry.
RemoveFrame ==
    [][\A p \in Procs :
         (pc[p] = "iremove" /\ pc'[p] = "done") =>
            /\ ~(getSafe(data', key[p]).found
                 /\ ~isExpired(expireAt'[key[p]], now'))
            /\ \A j \in Keys \ {key[p]} :
                 data'[j] = data[j] /\ expireAt'[j] = expireAt[j]
            /\ Count' = Count - (IF data[key[p]] # None THEN 1 ELSE 0)]_vars

\* C26 witness: a Remove has deleted the entry of its key while another key
\* is still cached.
RemoveWitness ==
    \E p \in Procs : \E j \in Keys :
        /\ op[p] = "Remove" /\ pc[p] = "done"
        /\ pre[p] # None /\ data[key[p]] = None
        /\ j # key[p] /\ data[j] # None

\* ------------------------------------------ caches built without a loader

\* a goroutine enters CacheImpl.Get(k) or CacheImpl.Refresh(k)
ImplLoadingCall(p) ==
    /\ p \in active
    /\ pc[p] \in {"idle", "done"}
    /\ budget > 0
    /\ \E o \in {"ImplGet", "Refresh"}, k \in LoadKeys :
         /\ op' = [op EXCEPT ![p] = o]
         /\ key' = [key EXCEPT ![p] = k]
    /\ arg' = [arg EXCEPT ![p] = None]
    /\ res' = [res EXCEPT ![p] = NoRes]
    /\ pre' = [pre EXCEPT ![p] = None]
    /\ pc' = [pc EXCEPT ![p] = "los"]
    /\ budget' = budget - 1
    /\ UNCHANGED <<mref, lockVars, data, keys, rw, cfgVars, obsVars, calls,
                   failed, touched, contended, puts, onlyPuts, ttlVars>>

\* NewCache(options...) of either generation without WithLoader and without
\* a TTL: a Cache, bounded or not, or a CacheImpl; one goroutine calls
InitNoLoader ==
    /\ InitCommon
    /\ NoExpiration
    /\ withLoader = FALSE
    /\ impl \in BOOLEAN
    /\ maxSize \in (IF impl THEN {0} ELSE 0..MaxCap)
    /\ keys = MakeKeys(maxSize)
    /\ active = {Min(Procs)}
    /\ budget = NoLoaderCalls

NextNoLoader ==
    \/ \E p \in Procs : ~impl /\ CacheStart(p)
    \/ \E p \in Procs : CachePutCheck(p)
    \/ \E p \in Procs : CacheEvictA(p)
    \/ \E p \in Procs : CacheEvictB(p)
    \/ \E p \in Procs : CachePutSafe(p)
    \/ \E p \in Procs : CacheRemove(p)
    \/ \E p \in Procs : CacheClear(p)
    \/ \E p \in Procs : CacheHas(p)
    \/ \E p \in Procs : CacheGetCheck(p)
    \/ \E p \in Procs : CacheLoad(p)
    \/ \E p \in Procs : impl /\ ImplCall(p)
    \/ \E p \in Procs : impl /\ ImplLoadingCall(p)
    \/ \E p \in Procs : ImplGetCheck(p)
    \/ \E p \in Procs : ImplLoad(p)
    \/ \E p \in Procs : ImplPut(p)
    \/ \E p \in Procs : ImplRemove(p)
    \/ \E p \in Procs : ImplGetIfPresent(p)
    \/ \E p \in Procs : ImplCount(p)
    \/ \E p \in Procs : ImplClose(p)
    \/ \E p \in Procs : LockLoadOrStore(p)
    \/ \E p \in Procs : LockMu(p)
    \/ \E p \in Procs : ReleaseUnlock(p)
    \/ \E p \in Procs : ReleaseDelete(p)

SpecNoLoader == InitNoLoader /\ [][NextNoLoader]_vars

CleanerOps == {"Store", "Start", "Stop"}

\* a goroutine enters data.Store(k, newEntry(k, v, expireAt)),
\* cleaner.Start() or cleaner.Stop(); Start is called at most once
CleanerCall(p) ==
    /\ p \in active
    /\ pc[p] \in {"idle", "done"}
    /\ budget > 0
    /\ \E o \in CleanerOps, k \in LoadKeys, v \in Values :
         /\ o # "Store" => (k = Min(LoadKeys) /\ v = Min(Values))
         /\ o = "Start" => spc = "none"
         /\ op' = [op EXCEPT ![p] = o]
         /\ key' = [key EXCEPT ![p] = k]
         /\ arg' = [arg EXCEPT ![p] = IF o = "Store" THEN v ELSE None]
         /\ pc' = [pc EXCEPT ![p] = CASE o = "Store" -> "cstore"
                                      [] o = "Start" -> "cstart"
                                      [] o = "Stop" -> "cstop"]
    /\ res' = [res EXCEPT ![p] = NoRes]
    /\ budget' = budget - 1
    /\ UNCHANGED <<mref, lockVars, data, keys, rw, cfgVars, obsVars,
                   histVars, ttlVars>>

\* data.Store(key, newEntry(key, value, expireAt)), expireAt = now + d
CleanerStore(p) ==
    /\ pc[p] = "cstore"
    /\ \E d \in 0..MaxTTL :
         expireAt' = [expireAt EXCEPT ![key[p]] = now + d]
    /\ data' = [data EXCEPT ![key[p]] = arg[p]]
    /\ pc' = [pc EXCEPT ![p] = "done"]
    /\ UNCHANGED <<op, key, arg, res, mref, lockVars, keys, rw, cfgVars,
                   obsVars, budget, histVars, clockVars, updated, sweepVars,
                   tickVars, logVars>>

\* Start: go func() { ticker := time.NewTicker(...); for { select ... } }()
CleanerStart(p) ==
    /\ pc[p] = "cstart"
    /\ spc' = "wait"
    /\ pc' = [pc EXCEPT ![p] = "done"]
    /\ UNCHANGED <<op, key, arg, res, mref, lockVars, data, keys, rw,
                   cfgVars, obsVars, budget, histVars, clockVars, entVars,
                   skeys, sent, final, tickVars, logVars>>

\* Stop: c.donechn <- struct{}{} on the unbuffered channel, received by
\* the goroutine's select, case <-c.donechn: return
CleanerStop_NoWait(p) ==
    /\ pc[p] = "cstop"
    /\ pc' = [pc EXCEPT ![p] = "done"]
    /\ UNCHANGED <<op, key, arg, res, mref, lockVars, data, keys, rw,
                   cfgVars, obsVars, budget, histVars, ttlVars>>

CleanerStop(p) ==
    /\ pc[p] = "cstop"
    /\ spc = "wait"
    /\ spc' = "exit"
    /\ pc' = [pc EXCEPT ![p] = "done"]
    /\ UNCHANGED <<op, key, arg, res, mref, lockVars, data, keys, rw,
                   cfgVars, obsVars, budget, histVars, clockVars, entVars,
                   skeys, sent, final, tickVars, logVars>>

\* the goroutine's select, case <-ticker.C: c.cleanup()
CleanerTick ==
    /\ spc = "wait"
    /\ spc' = "collect"
    /\ UNCHANGED <<procVars, lockVars, data, keys, rw, cfgVars, obsVars,
                   budget, histVars, clockVars, entVars, skeys, sent, final,
                   tickVars, logVars>>

\* cleanup: c.data.Range(...) appends the keys with entry.isExpired()
CleanerCollect ==
    /\ spc = "collect"
    /\ skeys' = {k \in Keys : data[k] # None /\ isExpired(expireAt[k], now)}
    /\ spc' = "del"
    /\ UNCHANGED <<procVars, lockVars, data, keys, rw, cfgVars, obsVars,
                   budget, histVars, clockVars, entVars, sent, final,
                   tickVars, logVars>>

\* cleanup: for _, key := range keys { c.data.Delete(key) }
CleanerDelete ==
    /\ spc = "del"
    /\ \E k \in skeys :
         /\ skeys' = skeys \ {k}
         /\ data' = [data EXCEPT ![k] = None]
         /\ expireAt' = [expireAt EXCEPT ![k] = zeroTime]
    /\ UNCHANGED <<procVars, lockVars, keys, rw, cfgVars, obsVars, budget,
                   histVars, clockVars, updated, spc, sent, final, tickVars,
                   logVars>>

\* cleanup returns, the goroutine selects again
CleanerEnd ==
    /\ spc = "del"
    /\ skeys = {}
    /\ spc' = "wait"
    /\ UNCHANGED <<procVars, lockVars, data, keys, rw, cfgVars, obsVars,
                   budget, histVars, clockVars, entVars, skeys, sent, final,
                   tickVars, logVars>>

\* newCacheCleaner(data, interval) on an empty map, Start not yet called;
\* one goroutine issues the calls
InitCleaner ==
    /\ InitCommon
    /\ NoExpiration
    /\ keys = <<>>
    /\ maxSize = 0
    /\ withLoader = FALSE
    /\ impl = FALSE
    /\ active = {Min(Procs)}
    /\ budget = CleanerCalls

NextCleaner ==
    \/ \E p \in Procs : CleanerCall(p)
    \/ \E p \in Procs : CleanerStore(p)
    \/ \E p \in Procs : CleanerStart(p)
    \/ \E p \in Procs : CleanerStop(p)
    \/ Tick
    \/ CleanerTick
    \/ CleanerCollect
    \/ CleanerDelete
    \/ CleanerEnd

SpecCleaner == InitCleaner /\ [][NextCleaner]_vars

\* ---------------------------------------------------- cacheCleaner: claims

\* C21: a caller inside Stop never waits for a cleaner goroutine that was
\* not started or has already returned, which nothing would end.
StopReturns ==
    \A p \in Procs : pc[p] = "cstop" => spc \notin {"none", "exit"}

\* C24: Stop returns in the step in which the waiting cleaner goroutine
\* takes the done signal and returns, so no cleanup is in progress then,
\* and after it the cleaner deletes nothing, whatever expires later.
StopHaltsCleaner ==
    [][/\ \A p \in Procs :
            (pc[p] = "cstop" /\ pc'[p] = "done") =>
                (spc = "wait" /\ spc' = "exit")
       /\ spc = "exit" =>
            /\ spc' = "exit"
            /\ \A k \in Keys : data[k] # None => data'[k] # None]_vars

\* C24 witness: Stop has returned, the cleaner goroutine is gone and an
\* entry that is expired by now is still in the map.
StopHaltsWitness ==
    \E p \in Procs : \E k \in Keys :
        /\ op[p] = "Stop" /\ pc[p] = "done" /\ spc = "exit"
        /\ data[k] # None /\ isExpired(expireAt[k], now)

\* ----------------------------------------- Cache with one timer per entry

\* a goroutine enters Put(k, v) or Remove(k)
TimerCall(p) ==
    /\ p \in active
    /\ pc[p] \in {"idle", "done"}
    /\ budget > 0
    /\ \E o \in {"Put", "Remove"}, k \in LoadKeys, v \in Values :
         /\ o # "Put" => v = Min(Values)
         /\ op' = [op EXCEPT ![p] = o]
         /\ key' = [key EXCEPT ![p] = k]
         /\ arg' = [arg EXCEPT ![p] = IF o = "Put" THEN v ELSE None]
         /\ pc' = [pc EXCEPT ![p] = IF o = "Put" THEN "tput" ELSE "tremove"]
    /\ res' = [res EXCEPT ![p] = NoRes]
    /\ budget' = budget - 1
    /\ UNCHANGED <<mref, lockVars, data, keys, rw, cfgVars, obsVars,
                   histVars, ttlVars>>

\* the timers with the one of entry i cancelled (entry.cancel())
Cancel(ts, i) ==
    [j \in 1..Len(ts) |->
        IF j = i THEN [ts[j] EXCEPT !.cancelled = TRUE] ELSE ts[j]]

\* Put, first half: entry := c.newEntry(key, value)
\*   currentEntry, found := c.getSafe(entry.key)
\*   if found { currentEntry.cancel() }
\*   c.expire(entry), which starts the goroutine of the new entry
TimerPutArm(p) ==
    /\ pc[p] = "tput"
    /\ timers' = Append(IF eid[key[p]] # 0 THEN Cancel(timers, eid[key[p]])
                        ELSE timers,
                        [key |-> key[p], val |-> arg[p],
                         deadline |-> now + expireAfterWrite,
                         st |-> "armed", cancelled |-> ctxDone, by |-> p])
    /\ pc' = [pc EXCEPT ![p] = "tpsafe"]
    /\ UNCHANGED <<op, key, arg, res, mref, lockVars, data, keys, rw,
                   cfgVars, extVars, lastPut, seen, eid, budget, histVars, ttlVars>>

\* Put, second half: c.putSafe(entry)
TimerPutSafe(p) ==
    /\ pc[p] = "tpsafe"
    /\ data' = [data EXCEPT ![key[p]] = arg[p]]
    /\ eid' = [eid EXCEPT ![key[p]] =
                 CHOOSE i \in 1..Len(timers) :
                    /\ timers[i].by = p
                    /\ \A j \in 1..Len(timers) : timers[j].by = p => j <= i]
    /\ pc' = [pc EXCEPT ![p] = "done"]
    /\ UNCHANGED <<op, key, arg, res, mref, lockVars, keys, rw, cfgVars, extVars,
                   lastPut, seen, timers, budget, histVars, ttlVars>>

\* Remove: entry, found := c.getSafe(key); if found { entry.cancel() }
\*         c.removeSafe(key)
TimerRemove(p) ==
    /\ pc[p] = "tremove"
    /\ timers' = IF eid[key[p]] # 0 THEN Cancel(timers, eid[key[p]])
                 ELSE timers
    /\ data' = [data EXCEPT ![key[p]] = None]
    /\ eid' = [eid EXCEPT ![key[p]] = 0]
    /\ dropped' = dropped \cup ({eid[key[p]]} \ {0})
    /\ pc' = [pc EXCEPT ![p] = "done"]
    /\ UNCHANGED <<op, key, arg, res, mref, lockVars, keys, rw, cfgVars, rwVars,
                   loaded, lastPut, seen, budget, histVars, ttlVars>>

\* Clear, under c.mu.Lock(): entry.cancel() for every entry of the map,
\* then c.data = make(map); the call is one step, the expire goroutines
\* need c.mu for removeSafe
TimerClear(p) ==
    /\ p \in active
    /\ pc[p] \in {"idle", "done"}
    /\ budget > 0
    /\ op' = [op EXCEPT ![p] = "Clear"]
    /\ arg' = [arg EXCEPT ![p] = None]
    /\ res' = [res EXCEPT ![p] = NoRes]
    /\ pc' = [pc EXCEPT ![p] = "done"]
    /\ budget' = budget - 1
    /\ timers' = [j \in 1..Len(timers) |->
                    IF \E k \in Keys : eid[k] = j
                    THEN [timers[j] EXCEPT !.cancelled = TRUE]
                    ELSE timers[j]]
    /\ dropped' = dropped \cup ({eid[k] : k \in Keys} \ {0})
    /\ data' = [k \in Keys |-> None]
    /\ eid' = [k \in Keys |-> 0]
    /\ UNCHANGED <<key, mref, lockVars, keys, rw, cfgVars, rwVars, loaded,
                   lastPut, seen, histVars, ttlVars>>

\* Close: c.closeCtx() cancels rootCtx and with it the context of every
\* entry, which newEntry derives from rootCtx
TimerClose(p) ==
    /\ p \in active
    /\ pc[p] \in {"idle", "done"}
    /\ budget > 0
    /\ op' = [op EXCEPT ![p] = "Close"]
    /\ arg' = [arg EXCEPT ![p] = None]
    /\ res' = [res EXCEPT ![p] = NoRes]
    /\ pc' = [pc EXCEPT ![p] = "done"]
    /\ budget' = budget - 1
    /\ ctxDone' = TRUE
    /\ timers' = [j \in 1..Len(timers) |->
                    [timers[j] EXCEPT !.cancelled = TRUE]]
    /\ UNCHANGED <<key, mref, lockVars, data, keys, rw, cfgVars, extVars,
                   lastPut, seen, eid, histVars, clockVars, entVars,
                   sweepVars, once, closes, logVars>>

SetState(ts, i, s) ==
    [j \in 1..Len(ts) |-> IF j = i THEN [ts[j] EXCEPT !.st = s] ELSE ts[j]]

\* expire, select: case <-time.After(c.expireAfterWrite), ready once the
\* TTL has elapsed since the goroutine started
TimerSelectAfter(i) ==
    /\ timers[i].st = "armed"
    /\ now >= timers[i].deadline
    /\ timers' = SetState(timers, i, "fired")
    /\ UNCHANGED <<procVars, lockVars, data, keys, rw, cfgVars, extVars, lastPut,
                   seen, eid, budget, histVars, ttlVars>>

\* expire, select: case <-entry.ctx.Done(): return
TimerSelectDone(i) ==
    /\ timers[i].st = "armed"
    /\ timers[i].cancelled
    /\ timers' = SetState(timers, i, "gone")
    /\ UNCHANGED <<procVars, lockVars, data, keys, rw, cfgVars, extVars, lastPut,
                   seen, eid, budget, histVars, ttlVars>>

\* expire, after time.After: c.removeSafe(entry.key)
\*   if c.onExpired != nil { c.onExpired(entry.key, entry.value) }
TimerRemoveSafe(i) ==
    /\ timers[i].st = "fired"
    /\ data' = [data EXCEPT ![timers[i].key] = None]
    /\ eid' = [eid EXCEPT ![timers[i].key] = 0]
    /\ fired' = IF withOnExpired
                THEN Append(fired, <<timers[i].key, timers[i].val>>)
                ELSE fired
    /\ timers' = SetState(timers, i, "gone")
    /\ UNCHANGED <<procVars, lockVars, keys, rw, cfgVars, extVars, lastPut, seen,
                   budget, histVars, clockVars, entVars, sweepVars,
                   tickVars, startExpired, userTouched>>

\* NewCache(WithExpireAfterWrite(d), WithOnExpired(fn) or not): no ticker,
\* no entry and no timer yet; one goroutine issues the calls
InitTimer ==
    /\ InitCommon
    /\ keys = <<>>
    /\ maxSize = 0
    /\ withLoader = FALSE
    /\ impl = FALSE
    /\ active = {Min(Procs)}
    /\ budget = TimerOps
    /\ expireAfterWrite \in 1..MaxTTL
    /\ withOnExpired \in BOOLEAN
    /\ spc = "none"

NextTimer ==
    \/ \E p \in Procs : TimerCall(p)
    \/ \E p \in Procs : TimerPutArm(p)
    \/ \E p \in Procs : TimerPutSafe(p)
    \/ \E p \in Procs : TimerRemove(p)
    \/ \E p \in Procs : TimerClear(p)
    \/ \E p \in Procs : TimerClose(p)
    \/ \E i \in 1..Len(timers) : TimerSelectAfter(i)
    \/ \E i \in 1..Len(timers) : TimerSelectDone(i)
    \/ \E i \in 1..Len(timers) : TimerRemoveSafe(i)
    \/ Tick

SpecTimer == InitTimer /\ [][NextTimer]_vars

\* C30: when the goroutine of an entry removes its key after time.After,
\* the map holds for that key no entry written later than its own (entries
\* are numbered in the order of their Put), and whatever it removes is at
\* least the TTL old; so the timer of an overwritten entry neither removes
\* the newer entry nor reports an expiry while the newer entry is stored.
ExpiryCountsFromLastWrite ==
    [][\A i \in 1..Len(timers) :
         (timers[i].st = "fired" /\ timers'[i].st = "gone") =>
            LET k == timers[i].key IN
            /\ eid[k] <= i
            /\ eid[k] # 0 => now >= timers[eid[k]].deadline]_vars

\* C32: the expire goroutine of an entry that Remove or Clear deleted never
\* runs its removal: it deletes nothing (in particular no entry written
\* later under the same key) and does not invoke onExpired.
RemovedTimerIsDead ==
    [][\A i \in 1..Len(timers) :
          (i \in dropped /\ timers[i].st = "fired"
                         /\ timers'[i].st = "gone") =>
              (data' = data /\ fired' = fired)]_vars

\* C33: once Close has returned (the root context is cancelled) no expire
\* goroutine removes an entry or invokes onExpired any more, whether its
\* entry was stored before Close or after it.
ClosedNeverExpires ==
    [][ctxDone =>
         \A i \in 1..Len(timers) :
            (timers[i].st = "fired" /\ timers'[i].st = "gone") =>
                (data' = data /\ fired' = fired)]_vars

\* ------------------------------------------- CacheImpl, concurrent Refresh

\* NewCache(WithLoader(fn)) of CacheImpl, no expiration: goroutines call
\* Refresh and Get concurrently
InitRefresh ==
    /\ InitCommon
    /\ NoExpiration
    /\ keys = <<>>
    /\ maxSize = 0
    /\ withLoader = TRUE
    /\ impl = TRUE
    /\ active = Procs
    /\ budget = RefreshCalls

NextRefresh ==
    \/ \E p \in Procs : ImplLoadingCall(p)
    \/ \E p \in Procs : LockLoadOrStore(p)
    \/ \E p \in Procs : LockMu(p)
    \/ \E p \in Procs : ImplGetCheck(p)
    \/ \E p \in Procs : ImplLoad(p)
    \/ \E p \in Procs : ReleaseUnlock(p)
    \/ \E p \in Procs : ReleaseDelete(p)
    \/ \E p \in Procs : ImplPut(p)

SpecRefresh == InitRefresh /\ [][NextRefresh]_vars

\* C35: when two concurrent Refresh(k) calls have both returned without
\* error and nothing else has touched k, the value cached for k is the
\* result of the loader invocation that ran last.
RefreshLastLoadWins ==
    \A p, q \in Procs :
        (/\ p # q
         /\ op[p] = "Refresh" /\ op[q] = "Refresh"
         /\ key[p] = key[q]
         /\ pc[p] = "done" /\ pc[q] = "done"
         /\ res[p].err = Nil /\ res[q].err = Nil
         /\ calls[key[p]] = 2
         /\ \A r \in Procs \ {p, q} : pc[r] = "idle")
        => data[key[p]] = loaded[key[p]]

\* ---------------------------------------------- Cache.ForEach and Cache.mu

\* Cache.mu is a sync.RWMutex: RLock blocks while a writer holds the lock
\* or has called Lock and waits for the readers to leave; Lock waits until
\* no reader and no writer holds the lock. readers[p] counts the read
\* locks goroutine p holds, wwait is the goroutine whose Lock is pending,
\* rw the goroutine that holds the write lock.
CanRLock == rw = NoProc /\ wwait = {}

CanLock(p) == p \in wwait /\ rw = NoProc /\ \A q \in Procs : readers[q] = 0

\* the goroutine that calls ForEach; the others call Put
Iterator == Min(Procs)

\* a goroutine enters ForEach(fn), whose fn calls Get(key) or
\* Put(key, value) on the same cache, or enters Put(k, v)
ForEachCall(p) ==
    /\ p \in active
    /\ pc[p] \in {"idle", "done"}
    /\ budget > 0
    /\ \/ /\ p = Iterator
          /\ \E o \in {"ForEachGet", "ForEachPut"} :
                op' = [op EXCEPT ![p] = o]
          /\ pc' = [pc EXCEPT ![p] = "rlock"]
          /\ UNCHANGED <<key, arg>>
       \/ /\ \E k \in LoadKeys, v \in Values :
                /\ key' = [key EXCEPT ![p] = k]
                /\ arg' = [arg EXCEPT ![p] = v]
          /\ op' = [op EXCEPT ![p] = "Put"]
          /\ pc' = [pc EXCEPT ![p] = "wlock"]
    /\ res' = [res EXCEPT ![p] = NoRes]
    /\ budget' = budget - 1
    /\ UNCHANGED <<mref, lockVars, data, keys, rw, cfgVars, obsVars,
                   histVars, ttlVars>>

\* ForEach: c.mu.RLock(); the range over c.data then visits the entries
\* the map holds, which cannot change under the read lock
ForEachRLock(p) ==
    /\ pc[p] = "rlock"
    /\ CanRLock
    /\ readers' = [readers EXCEPT ![p] = @ + 1]
    /\ skeys' = {k \in Keys : data[k] # None}
    /\ pc' = [pc EXCEPT ![p] = "range"]
    /\ UNCHANGED <<op, key, arg, res, mref, lockVars, data, keys, rw,
                   cfgVars, lastPut, seen, timers, eid, wwait, loaded,
                   dropped, budget, histVars, clockVars, entVars, spc,
                   sent, final, tickVars, logVars>>

\* ForEach: fn(key, entry.value) for the next entry of the range; fn
\* enters Get(key), whose keyed lock no other goroutine takes here, or
\* Put(key, value)
ForEachFn(p) ==
    /\ pc[p] = "range"
    /\ \E k \in skeys :
         /\ skeys' = skeys \ {k}
         /\ key' = [key EXCEPT ![p] = k]
         /\ arg' = [arg EXCEPT ![p] = data[k]]
    /\ pc' = [pc EXCEPT ![p] = IF op[p] = "ForEachGet" THEN "fnrlock"
                                ELSE "wlock"]
    /\ UNCHANGED <<op, res, mref, lockVars, data, keys, rw, cfgVars,
                   obsVars, budget, histVars, clockVars, entVars, spc,
                   sent, final, tickVars, logVars>>

\* Get in fn: getSafe, c.mu.RLock()
ForEachGetRLock(p) ==
    /\ pc[p] = "fnrlock"
    /\ CanRLock
    /\ readers' = [readers EXCEPT ![p] = @ + 1]
    /\ pc' = [pc EXCEPT ![p] = "fnread"]
    /\ UNCHANGED <<op, key, arg, res, mref, lockVars, data, keys, rw,
                   cfgVars, lastPut, seen, timers, eid, wwait, loaded,
                   dropped, budget, histVars, ttlVars>>

\* Get in fn: getSafe reads the entry, c.mu.RUnlock(); Get returns and so
\* does fn
ForEachGetSafe(p) ==
    /\ pc[p] = "fnread"
    /\ readers' = [readers EXCEPT ![p] = @ - 1]
    /\ res' = [res EXCEPT ![p] = [val |-> getSafe(data, key[p]).val,
                                  ok |-> getSafe(data, key[p]).found,
                                  err |-> Nil]]
    /\ pc' = [pc EXCEPT ![p] = "range"]
    /\ UNCHANGED <<op, key, arg, mref, lockVars, data, keys, rw,
                   cfgVars, lastPut, seen, timers, eid, wwait, loaded,
                   dropped, budget, histVars, ttlVars>>

\* Put, putSafe: c.mu.Lock() is called; from now on new readers wait
PutLockCall(p) ==
    /\ pc[p] = "wlock"
    /\ rw = NoProc /\ wwait = {}
    /\ wwait' = {p}
    /\ pc' = [pc EXCEPT ![p] = "wacq"]
    /\ UNCHANGED <<op, key, arg, res, mref, lockVars, data, keys, rw,
                   cfgVars, lastPut, seen, timers, eid, readers, loaded,
                   dropped, budget, histVars, ttlVars>>

\* Put, putSafe: c.mu.Lock() returns once the readers have left
PutLock(p) ==
    /\ pc[p] = "wacq"
    /\ CanLock(p)
    /\ rw' = p
    /\ wwait' = {}
    /\ pc' = [pc EXCEPT ![p] = "wput"]
    /\ UNCHANGED <<op, key, arg, res, mref, lockVars, data, keys,
                   cfgVars, lastPut, seen, timers, eid, readers, loaded,
                   dropped, budget, histVars, ttlVars>>

\* Put, putSafe: c.data[entry.key] = entry; c.mu.Unlock(); a Put called by
\* fn returns into the range
PutSafeUnlock(p) ==
    /\ pc[p] = "wput"
    /\ data' = [data EXCEPT ![key[p]] = arg[p]]
    /\ rw' = NoProc
    /\ pc' = [pc EXCEPT ![p] = IF op[p] = "Put" THEN "done" ELSE "range"]
    /\ UNCHANGED <<op, key, arg, res, mref, lockVars, keys, cfgVars,
                   obsVars, budget, histVars, ttlVars>>

\* ForEach: the range is over; the deferred c.mu.RUnlock() runs
ForEachReturn(p) ==
    /\ pc[p] = "range"
    /\ skeys = {}
    /\ readers' = [readers EXCEPT ![p] = @ - 1]
    /\ pc' = [pc EXCEPT ![p] = "done"]
    /\ UNCHANGED <<op, key, arg, res, mref, lockVars, data, keys, rw,
                   cfgVars, lastPut, seen, timers, eid, wwait, loaded,
                   dropped, budget, histVars, ttlVars>>

\* NewCache() of the ticker-swept Cache: no loader, no expiration, no
\* maximum size, empty map
InitForEach ==
    /\ InitCommon
    /\ NoExpiration
    /\ keys = <<>>
    /\ maxSize = 0
    /\ withLoader = FALSE
    /\ impl = FALSE
    /\ active = Procs
    /\ budget = ForEachOps

ForEachStep(p) ==
    \/ ForEachRLock(p)
    \/ ForEachFn(p)
    \/ ForEachGetRLock(p)
    \/ ForEachGetSafe(p)
    \/ PutLockCall(p)
    \/ PutLock(p)
    \/ PutSafeUnlock(p)
    \/ ForEachReturn(p)

NextForEach ==
    \/ \E p \in Procs : ForEachCall(p)
    \/ \E p \in Procs : ForEachRLock(p)
    \/ \E p \in Procs : ForEachFn(p)
    \/ \E p \in Procs : ForEachGetRLock(p)
    \/ \E p \in Procs : ForEachGetSafe(p)
    \/ \E p \in Procs : PutLockCall(p)
    \/ \E p \in Procs : PutLock(p)
    \/ \E p \in Procs : PutSafeUnlock(p)
    \/ \E p \in Procs : ForEachReturn(p)

\* every goroutine that can take a step eventually takes one
SpecForEach ==
    /\ InitForEach
    /\ [][NextForEach]_vars
    /\ \A p \in Procs : WF_vars(ForEachStep(p))

\* C38: a ForEach whose callback calls Get or Put on the same cache
\* returns, also while other goroutines call Put: the caller is never left
\* blocked on Cache.mu.
ForEachTerminates ==
    \A p \in Procs : (pc[p] = "rlock") ~> (pc[p] = "done")

\* C39: once the done channel of the ticker is closed (closes > 0), the
\* next sweep the ticker goroutine starts is the final one (the case
\* <-t.done of ticker.start, after which the goroutine returns): no periodic
\* sweep (case <-ticker.C) starts between the stop request and the final
\* sweep, and after the goroutine has exited no sweep starts at all.
TickerShutdown ==
    [][/\ (closes > 0 /\ spc = "wait" /\ spc' = "keys") => final'
       /\ spc = "exit" => spc' = "exit"]_vars

TypeOK ==
    /\ pc \in [Procs -> STRING]
    /\ data \in [Keys -> Values \cup {None}]
    /\ budget \in Nat
    /\ impl \in BOOLEAN
    /\ lastPut \in [Keys -> Values \cup {None}]
    /\ seen \subseteq Keys

====
